---- MODULE Spec2Model ----
(***************************************************************************)
(* ssm_cache: a client-side cache over the SSM parameter store.            *)
(* Model of ssm_cache/cache.py: Refreshable, SSMParameter and              *)
(* SSMParameterGroup, with the backend (the boto3 SSM client) as the       *)
(* environment.  Strings are sequences of tokens: "/", ":" and "," are     *)
(* tokens of their own, a decimal digit is a token, a path segment is a    *)
(* token.  Every public call is one atomic action (the library is          *)
(* synchronous and single-threaded), except under ThreadSpec, where a      *)
(* refresh() is taken statement by statement.  A call is an operator from  *)
(* the objects and the group before it to its Outcome: the objects and     *)
(* the group after it, the error it raised, the requests it sent.          *)
(***************************************************************************)
EXTENDS Integers, Sequences, FiniteSets, TLC

VARIABLES
    now,        \* datetime.utcnow(), in seconds
    backend,    \* the parameter store: latest version of every name (0: no such parameter)
    objs,       \* every SSMParameter object constructed so far; an object's identity is its index
    group,      \* the SSMParameterGroup object, if the program made one
    stamps,     \* history: the times of the group's parameters() calls that succeeded,
                \* for as long as they are all the refreshes of the group (<<None>> after)
    supplied,   \* the name the caller hands to a constructor
    deco,       \* the decorator refresh_on_error() returned, if the program made one
    pc,         \* the steps a call of the decorated function still has to take
    trace,      \* history: the calls that call made, in order, each with how it ended
    result,     \* how that call ended
    clients,    \* the class attribute _ssm_client of every class that has one
    ssm_filter, \* the SSMFilter object, if the program made one
    chain,      \* the ChainedParameterStore object, os.environ and what its call returned
    threads     \* the threads that call refresh() of objs[1], each with its position

vars == <<now, backend, objs, group, stamps, supplied, deco, pc, trace, result, clients,
          ssm_filter, chain, threads>>

\* the variables of the constructors' caller, of the decorator, of the classes, of
\* the filter, of the chained store and of the threads
aux_vars == <<supplied, deco, pc, trace, result, clients, ssm_filter, chain, threads>>

-----------------------------------------------------------------------------
(* Bounds of the model *)

MaxTime == 2
MaxVersion == 2
MaxObjs == 2
MaxStandalone == 1
MaxMaxAge == 1
MaxStamps == 2

-----------------------------------------------------------------------------
(* Python values *)

\* None, for the integer-valued attributes (_max_age, _last_refresh_time, _version)
None == -1

\* None, for _value (a fetched value is never the empty sequence)
NoValue == <<>>

Min(a, b) == IF a < b THEN a ELSE b

Digits == <<"0", "1", "2", "3", "4", "5", "6", "7", "8", "9">>

IsDigitToken(c) == \E d \in 1..Len(Digits) : Digits[d] = c

DigitValue(c) == (CHOOSE d \in 1..Len(Digits) : Digits[d] = c) - 1

\* str.isdigit(): non-empty and digits only
isdigit(s) == Len(s) > 0 /\ \A k \in 1..Len(s) : IsDigitToken(s[k])

\* int(s), for s with isdigit(s)
RECURSIVE int(_)
int(s) ==
    IF Len(s) = 0 THEN 0
    ELSE 10 * int(SubSeq(s, 1, Len(s) - 1)) + DigitValue(s[Len(s)])

\* "%s" % n, for an integer n >= 0
RECURSIVE str(_)
str(n) ==
    IF n < 10 THEN <<Digits[n + 1]>>
    ELSE str(n \div 10) \o <<Digits[(n % 10) + 1]>>

\* s.startswith(prefix)
startswith(s, prefix) ==
    Len(s) >= Len(prefix) /\ SubSeq(s, 1, Len(prefix)) = prefix

\* sep in s
contains(s, sep) == \E k \in 1..Len(s) : s[k] = sep

\* s.split(sep): the pieces of s between the occurrences of sep
RECURSIVE split(_, _)
split(s, sep) ==
    IF ~contains(s, sep) THEN <<s>>
    ELSE LET k == CHOOSE j \in 1..Len(s) :
                     s[j] = sep /\ \A h \in 1..(j - 1) : s[h] # sep
         IN  <<SubSeq(s, 1, k - 1)>> \o split(SubSeq(s, k + 1, Len(s)), sep)

\* sep.join(parts)
RECURSIVE join(_, _)
join(parts, sep) ==
    IF Len(parts) = 0 THEN <<>>
    ELSE IF Len(parts) = 1 THEN parts[1]
    ELSE parts[1] \o <<sep>> \o join(Tail(parts), sep)

Reverse(s) == [k \in 1..Len(s) |-> s[Len(s) + 1 - k]]

-----------------------------------------------------------------------------
(* The backend: the SSM service behind the boto3 client *)

NameP == <<"/", "a", "/", "p">>
NameQ == <<"/", "a", "/", "b", "/", "q">>

\* the names the store can hold, in the order a by-path query lists them
BackendNames == <<NameP, NameQ>>

IsBackendName(n) == n \in DOMAIN backend

\* the type of a stored parameter
TypeOf(n) == IF n = NameQ THEN "StringList" ELSE "String"

\* the content written as version v of name n (every put writes a new content)
Content(n, v) ==
    IF TypeOf(n) = "StringList"
    THEN <<"q">> \o str(v) \o <<",">> \o <<"q">> \o str(v)
    ELSE <<"p">> \o str(v)

NameSet == {BackendNames[k] : k \in 1..Len(BackendNames)}

\* a requested key is name or name:version; it resolves when the store holds that
\* name and, for name:version, that version of it
ResolvesParts(parts) ==
    /\ IsBackendName(parts[1])
    /\ \/ Len(parts) = 1 /\ backend[parts[1]] >= 1
       \/ /\ Len(parts) = 2
          /\ isdigit(parts[2])
          /\ int(parts[2]) \in 1..backend[parts[1]]

Resolves(key) == ResolvesParts(split(key, ":"))

\* version v of name n, as the store returns it
ItemVersion(n, v) ==
    [Name |-> n, Value |-> Content(n, v), Type |-> TypeOf(n), Version |-> v]

ItemParts(parts) ==
    ItemVersion(parts[1], IF Len(parts) = 1 THEN backend[parts[1]] ELSE int(parts[2]))

\* the item the store returns for a key that resolves: Name is the bare name
Item(key) == ItemParts(split(key, ":"))

\* the items of the keys listed
Items(listed) == [k \in 1..Len(listed) |-> Item(listed[k])]

\* the order of Parameters in a response is the service's choice: the request's
\* order, or (rev) the opposite one
Listed(found, rev) == IF rev THEN Reverse(found) ELSE found

\* client.get_parameters(Names=..., WithDecryption=...): the items of the keys that
\* resolve and the keys that do not
get_parameters(Names, rev) ==
    [Parameters |-> Items(Listed(SelectSeq(Names, Resolves), rev)),
     InvalidParameters |-> SelectSeq(Names, LAMBDA key : ~Resolves(key))]

\* the names a by-path query lists: those below Path, its direct children only
\* unless Recursive
Below(name, Path, Recursive) ==
    LET prefix == IF Len(Path) > 0 /\ Path[Len(Path)] = "/" THEN Path ELSE Path \o <<"/">>
        rest == SubSeq(name, Len(prefix) + 1, Len(name))
    IN  /\ startswith(name, prefix)
        /\ Len(rest) > 0
        /\ Recursive \/ ~contains(rest, "/")

\* the service rejects a Path that is no hierarchy ("/...")
PathAccepted(Path) == startswith(Path, <<"/">>)

\* client.get_parameters_by_path(Path=..., Recursive=..., ...), one page
get_parameters_by_path(Path, Recursive) ==
    [Parameters |-> Items(SelectSeq(BackendNames,
                        LAMBDA n : backend[n] >= 1 /\ Below(n, Path, Recursive)))]

-----------------------------------------------------------------------------
(* class Refreshable *)

\* the classes, and the class each one extends
Classes == {"Refreshable", "SSMParameter", "SSMParameterGroup", "SecretsManagerParameter"}

Base(cls) == IF cls = "SecretsManagerParameter" THEN "SSMParameter" ELSE "Refreshable"

\* a class that does not define _ssm_client itself
Unset == [kind |-> "unset"]

\* _ssm_client = None
NoClient == [kind |-> "None"]

\* boto3.client('ssm')
Boto3 == [kind |-> "boto3"]

\* a client of the caller's, with the methods it has
Client(id, methods) == [kind |-> "client", id |-> id, methods |-> methods]

\* "_ssm_client = None" in the body of Refreshable, when the module is loaded
Loaded == [cls \in Classes |-> IF cls = "Refreshable" THEN NoClient ELSE Unset]

\* cls._ssm_client: the attribute of the class, or of the nearest class it extends
RECURSIVE ClassAttr(_, _)
ClassAttr(cs, cls) == IF cs[cls] # Unset THEN cs[cls] ELSE ClassAttr(cs, Base(cls))

\* hasattr(client, method)
hasattr(client, method) == method \in client.methods

required_methods == {"get_parameters", "get_parameters_by_path"}

\* Refreshable.set_ssm_client, called on class cls: the class attributes after it
set_ssm_client(cs, cls, client) ==
    IF \E method \in required_methods : ~hasattr(client, method)
    THEN [err |-> "TypeError", clients |-> cs]
    ELSE [err |-> "", clients |-> [cs EXCEPT ![cls] = client]]

\* Refreshable._get_ssm_client, called on class cls: the client it returns
_get_ssm_client(cs, cls) ==
    IF ClassAttr(cs, cls) = NoClient
    THEN [clients |-> [cs EXCEPT ![cls] = Boto3], client |-> Boto3]
    ELSE [clients |-> cs, client |-> ClassAttr(cs, cls)]

\* the client of a fetch made by class cls, by name or by path:
\* "SSMParameter._get_ssm_client()" in _get_parameters and _get_parameters_by_path
FetchClient(cs, cls) == _get_ssm_client(cs, "SSMParameter")

\* can only get 10 parameters at a time
BatchSize == 10

\* timedelta(seconds=max_age or 0)
max_age_delta(max_age) == IF max_age = None \/ max_age = 0 THEN 0 ELSE max_age

\* _should_refresh without its first test (max_age unset means never refresh)
Refreshable_should_refresh_unguarded(self) ==
    IF self._last_refresh_time = None THEN TRUE
    ELSE now > self._last_refresh_time + max_age_delta(self._max_age)

\* Refreshable._should_refresh: self is an object with _max_age and _last_refresh_time
Refreshable_should_refresh(self) ==
    IF self._max_age = None \/ self._max_age = 0 THEN FALSE
    ELSE IF self._last_refresh_time = None THEN TRUE
    ELSE now > self._last_refresh_time + max_age_delta(self._max_age)

\* an _update_refresh_time that ignores keep_oldest_value
_update_refresh_time_latest(self, keep_oldest_value) == now

\* Refreshable._update_refresh_time: the new _last_refresh_time
_update_refresh_time(self, keep_oldest_value) ==
    IF keep_oldest_value /\ self._last_refresh_time # None
    THEN Min(now, self._last_refresh_time)
    ELSE now

\* Refreshable._parse_value
_parse_value(param_value, param_type) ==
    IF param_type = "StringList" THEN split(param_value, ",") ELSE param_value

\* one batch of every size
_batch_whole(iterable, num) == IF Len(iterable) = 0 THEN <<>> ELSE <<iterable>>

\* _batch(iterable, num): batches of size num, or less for the last one
RECURSIVE _batch(_, _)
_batch(iterable, num) ==
    IF Len(iterable) = 0 THEN <<>>
    ELSE <<SubSeq(iterable, 1, Min(num, Len(iterable)))>>
             \o _batch(SubSeq(iterable, num + 1, Len(iterable)), num)

\* items[item['Name']] = item, with the value parsed, for every item in turn
RECURSIVE StoreItems(_, _)
StoreItems(items, Parameters) ==
    IF Len(Parameters) = 0 THEN items
    ELSE LET item == Head(Parameters)
             parsed == [item EXCEPT !.Value = _parse_value(item.Value, item.Type)]
         IN  StoreItems((item.Name :> parsed) @@ items, Tail(Parameters))

\* a request to the client, as recorded in calls: the operation and its Names or Path
Request(api, key) == [api |-> api, key |-> key]

\* the body of the loop of _get_parameters, for the response to one batch
AddResponse(acc, name_batch, response) ==
    [items |-> StoreItems(acc.items, response.Parameters),
     invalid_names |-> acc.invalid_names \o response.InvalidParameters,
     calls |-> Append(acc.calls, Request("get_parameters", name_batch))]

\* the loop of _get_parameters over the batches
RECURSIVE GetBatches(_, _, _)
GetBatches(batches, rev, acc) ==
    IF Len(batches) = 0 THEN acc
    ELSE GetBatches(Tail(batches), rev,
             AddResponse(acc, Head(batches), get_parameters(Head(batches), rev)))

\* Refreshable._get_parameters: (items, invalid_names), and the requests sent
_get_parameters(names, rev) ==
    GetBatches(_batch(names, BatchSize), rev,
        [items |-> <<>>, invalid_names |-> <<>>, calls |-> <<>>])

\* Refreshable._get_parameters_by_path: the items by name
_get_parameters_by_path(path, recursive) ==
    StoreItems(<<>>, get_parameters_by_path(path, recursive).Parameters)

-----------------------------------------------------------------------------
(* class SSMParameter *)

\* SSMParameter._parse_version: (name, version, is_pinned_version), or the error raised
_parse_version_parts(param_name, parts) ==
    IF Len(parts) # 2
    THEN [err |-> "ValueError", name |-> param_name,
          version |-> None, is_pinned_version |-> FALSE]
    ELSE IF isdigit(parts[2]) /\ int(parts[2]) > 0
    THEN [err |-> "", name |-> parts[1],
          version |-> int(parts[2]), is_pinned_version |-> TRUE]
    ELSE [err |-> "InvalidVersionError", name |-> param_name,
          version |-> None, is_pinned_version |-> FALSE]

_parse_version(param_name) ==
    IF ~contains(param_name, ":")
    THEN [err |-> "", name |-> param_name, version |-> None, is_pinned_version |-> FALSE]
    ELSE _parse_version_parts(param_name, split(param_name, ":"))

\* SSMParameter.__init__, after _parse_version returned parsed or raised
SSMParameter_parsed(parsed, max_age) ==
    IF parsed.err # "" THEN [err |-> parsed.err]
    ELSE [err |-> "",
          self |-> [_name |-> parsed.name,
                    _version |-> parsed.version,
                    _is_pinned_version |-> parsed.is_pinned_version,
                    _value |-> NoValue,
                    _group |-> FALSE,
                    _max_age |-> max_age,
                    _last_refresh_time |-> None,
                    fetched |-> None]]

\* SSMParameter.__init__: the new object (its _group is set by the caller), or the error
SSMParameter(param_name, max_age) ==
    IF Len(param_name) = 0 THEN [err |-> "ValueError"]
    ELSE SSMParameter_parsed(_parse_version(param_name), max_age)

\* full_name without the version
full_name_bare(self) == self._name

\* SSMParameter.full_name
full_name(self) ==
    IF self._version # None /\ self._version # 0 /\ self._is_pinned_version
    THEN self._name \o <<":">> \o str(self._version)
    ELSE self._name

\* SSMParameterGroup.__len__
len(g) == Len(g._parameters)

\* "if self._group:": the object has a group and the group, which has a __len__,
\* is not empty
HasGroup(self, g) == self._group /\ len(g) # 0

\* _should_refresh without the delegation to the group: the entry's own tracker
SSMParameter_should_refresh_own(self, g) == Refreshable_should_refresh(self)

\* SSMParameter._should_refresh
SSMParameter_should_refresh(self, g) ==
    IF HasGroup(self, g) THEN Refreshable_should_refresh(g)
    ELSE Refreshable_should_refresh(self)

-----------------------------------------------------------------------------
(* class SSMParameterGroup *)

\* what an operation hands back: the objects and the group after it, the error it
\* raised ("" for none) with its message, the requests it sent, and the updates of
\* the group's refresh time it made
Outcome(os, g, err, msg, sent, stamped) ==
    [objs |-> os, group |-> g, err |-> err, msg |-> msg, calls |-> sent,
     stamped |-> stamped]

\* a _validate_path that never raises
_validate_path_any(path) == TRUE

\* SSMParameterGroup._validate_path: TRUE unless it raises InvalidPathError
_validate_path(path) == ~(Len(path) > 0 /\ ~startswith(path, <<"/">>))

\* key in self._parameters
Registered(g, key) == \E k \in 1..Len(g._parameters) : g._parameters[k].key = key

\* self._parameters[key]
Lookup(g, key) ==
    g._parameters[CHOOSE k \in 1..Len(g._parameters) : g._parameters[k].key = key].obj

\* self._parameters[key] = obj: a key already there keeps its place
SetItem(params, key, obj) ==
    IF \E k \in 1..Len(params) : params[k].key = key
    THEN [k \in 1..Len(params) |->
             IF params[k].key = key THEN [key |-> key, obj |-> obj] ELSE params[k]]
    ELSE Append(params, [key |-> key, obj |-> obj])

\* SSMParameterGroup.get_loaded_parameters
get_loaded_parameters(g) == [k \in 1..Len(g._parameters) |-> g._parameters[k].obj]

\* SSMParameterGroup.parameter: the object returned is obj
parameter_made(os, g, name, made) ==
    IF made.err # ""
    THEN [err |-> made.err, objs |-> os, group |-> g, obj |-> 0]
    ELSE [err |-> "",
          objs |-> Append(os, [made.self EXCEPT !._group = TRUE]),
          group |-> [g EXCEPT !._parameters = SetItem(@, name, Len(os) + 1)],
          obj |-> Len(os) + 1]

\* SSMParameterGroup.parameter, from "parameter = SSMParameter(path)" on
parameter_new(os, g, name) == parameter_made(os, g, name, SSMParameter(name, None))

\* parameter() without its lookup: every call makes a new entry
parameter_always_new(os, g, path, add_prefix) ==
    IF Len(g._base_path) > 0 /\ add_prefix
    THEN IF ~_validate_path(path)
         THEN [err |-> "InvalidPathError", objs |-> os, group |-> g, obj |-> 0]
         ELSE parameter_new(os, g, g._base_path \o path)
    ELSE parameter_new(os, g, path)

parameter(os, g, path, add_prefix) ==
    IF Registered(g, path)
    THEN [err |-> "", objs |-> os, group |-> g, obj |-> Lookup(g, path)]
    ELSE IF Len(g._base_path) > 0 /\ add_prefix
    THEN IF ~_validate_path(path)
         THEN [err |-> "InvalidPathError", objs |-> os, group |-> g, obj |-> 0]
         ELSE parameter_new(os, g, g._base_path \o path)
    ELSE parameter_new(os, g, path)

\* the loop of SSMParameterGroup.parameters over the items found; SetFoundOne is
\* its body after self.parameter(name, add_prefix=False) returned got or raised
RECURSIVE SetFound(_, _, _, _, _)
RECURSIVE SetFoundOne(_, _, _, _, _, _)
SetFoundOne(os, g, names, items, found, got) ==
    IF got.err # ""
    THEN [err |-> got.err, objs |-> os, group |-> g, ids |-> found]
    ELSE SetFound(
             [got.objs EXCEPT ![got.obj]._value = items[Head(names)].Value,
                              ![got.obj]._version = items[Head(names)].Version,
                              ![got.obj].fetched = now],
             got.group, Tail(names), items, Append(found, got.obj))

SetFound(os, g, names, items, found) ==
    IF Len(names) = 0
    THEN [err |-> "", objs |-> os, group |-> g, ids |-> found]
    ELSE SetFoundOne(os, g, names, items, found, parameter(os, g, Head(names), FALSE))

\* SSMParameterGroup.parameters, after its loop ended as set
parameters_set(set, sent) ==
    [err |-> set.err, objs |-> set.objs, group |-> set.group,
     ids |-> set.ids, calls |-> sent, stamped |-> <<"parameters">>]

\* SSMParameterGroup.parameters, from the items of _get_parameters_by_path on: the
\* names are taken in the order the response lists them
parameters_items(os, g, items, sent) ==
    parameters_set(
        SetFound(os, [g EXCEPT !._last_refresh_time = _update_refresh_time(g, TRUE)],
                 SelectSeq(BackendNames, LAMBDA n : n \in DOMAIN items), items, <<>>),
        sent)

\* parameters() with _update_refresh_time before the request
parameters_path_stamping(os, g, full, recursive) ==
    IF ~PathAccepted(full)
    THEN [err |-> "ClientError", objs |-> os,
          group |-> [g EXCEPT !._last_refresh_time = _update_refresh_time(g, TRUE)],
          ids |-> <<>>,
          calls |-> <<Request("get_parameters_by_path", full)>>,
          stamped |-> <<"parameters">>]
    ELSE parameters_items(os, g, _get_parameters_by_path(full, recursive),
                          <<Request("get_parameters_by_path", full)>>)

\* SSMParameterGroup.parameters, from the request for the prefixed path on
parameters_path(os, g, full, recursive) ==
    IF ~PathAccepted(full)
    THEN [err |-> "ClientError", objs |-> os, group |-> g, ids |-> <<>>,
          calls |-> <<Request("get_parameters_by_path", full)>>, stamped |-> <<>>]
    ELSE parameters_items(os, g, _get_parameters_by_path(full, recursive),
                          <<Request("get_parameters_by_path", full)>>)

\* SSMParameterGroup.parameters: the objects returned are ids
parameters(os, g, path, recursive) ==
    IF ~_validate_path(path)
    THEN [err |-> "InvalidPathError", objs |-> os, group |-> g, ids |-> <<>>,
          calls |-> <<>>, stamped |-> <<>>]
    ELSE parameters_path(os, g,
             IF Len(g._base_path) > 0 THEN g._base_path \o path ELSE path, recursive)

\* the loop of SSMParameterGroup._refresh over the loaded parameters
RECURSIVE SetLoaded(_, _, _)
SetLoaded(os, loaded, items) ==
    IF Len(loaded) = 0 THEN [err |-> "", msg |-> <<>>, objs |-> os]
    ELSE LET p == Head(loaded)
         IN  IF os[p]._name \notin DOMAIN items
             THEN [err |-> "InvalidParameterError", msg |-> os[p]._name, objs |-> os]
             ELSE SetLoaded(
                      [os EXCEPT ![p]._value = items[os[p]._name].Value,
                                 ![p]._version = items[os[p]._name].Version,
                                 ![p].fetched = now],
                      Tail(loaded), items)

\* SSMParameterGroup._refresh, from the loop on: set is what the loop did
SetLoadedOutcome(g, set, sent) == Outcome(set.objs, g, set.err, set.msg, sent, <<>>)

\* SSMParameterGroup._refresh, from the answer got of _get_parameters on
SSMParameterGroup__refresh_got(os, g, got) ==
    IF Len(got.invalid_names) > 0
    THEN Outcome(os, g, "InvalidParameterError", join(got.invalid_names, ","),
                 got.calls, <<>>)
    ELSE SetLoadedOutcome(g, SetLoaded(os, get_loaded_parameters(g), got.items),
                          got.calls)

\* names = [param.full_name for param in self.get_loaded_parameters()]
LoadedNames(os, loaded) == [k \in 1..Len(loaded) |-> full_name(os[loaded[k]])]

\* _refresh without its check of invalid_names: a missing item is found in the loop
SSMParameterGroup__refresh_unchecked(os, g, rev) ==
    LET got == _get_parameters(LoadedNames(os, get_loaded_parameters(g)), rev)
    IN  SetLoadedOutcome(g, SetLoaded(os, get_loaded_parameters(g), got.items),
                         got.calls)

\* SSMParameterGroup._refresh
SSMParameterGroup__refresh(os, g, rev) ==
    SSMParameterGroup__refresh_got(os, g,
        _get_parameters(LoadedNames(os, get_loaded_parameters(g)), rev))

\* refresh with _update_refresh_time(keep_oldest_value=True), as discovery has it
GroupRefreshed_coalescing(g, done) ==
    IF done.err # "" THEN done
    ELSE [done EXCEPT !.group._last_refresh_time = _update_refresh_time(g, TRUE),
                      !.stamped = <<"refresh">>]

\* Refreshable.refresh, after self._refresh() ended as done: the group's
\* _update_refresh_time() unless it raised
GroupRefreshed(g, done) ==
    IF done.err # "" THEN done
    ELSE [done EXCEPT !.group._last_refresh_time = _update_refresh_time(g, FALSE),
                      !.stamped = <<"refresh">>]

\* Refreshable.refresh, of the group
SSMParameterGroup_refresh(os, g, rev) ==
    GroupRefreshed(g, SSMParameterGroup__refresh(os, g, rev))

-----------------------------------------------------------------------------
(* SSMParameter: refresh, value, version *)

\* _refresh without its raise: an answer that lacks the item leaves the entry as
\* it is
SSMParameter__refresh_got_silent(first, i, got) ==
    IF Len(got.invalid_names) > 0 \/ first.objs[i]._name \notin DOMAIN got.items
    THEN Outcome(first.objs, first.group, "", <<>>, first.calls \o got.calls,
                 first.stamped)
    ELSE Outcome(
             [first.objs EXCEPT
                 ![i]._value = got.items[first.objs[i]._name].Value,
                 ![i]._version = got.items[first.objs[i]._name].Version,
                 ![i].fetched = now],
             first.group, "", <<>>, first.calls \o got.calls, first.stamped)

\* SSMParameter._refresh, from the answer got of _get_parameters on; first is what
\* the group's refresh did, if there is a group
SSMParameter__refresh_got(first, i, got) ==
    IF Len(got.invalid_names) > 0 \/ first.objs[i]._name \notin DOMAIN got.items
    THEN Outcome(first.objs, first.group, "InvalidParameterError",
                 first.objs[i]._name \o <<" is invalid. ">>
                     \o join(got.invalid_names, ","),
                 first.calls \o got.calls, first.stamped)
    ELSE Outcome(
             [first.objs EXCEPT
                 ![i]._value = got.items[first.objs[i]._name].Value,
                 ![i]._version = got.items[first.objs[i]._name].Version,
                 ![i].fetched = now],
             first.group, "", <<>>, first.calls \o got.calls, first.stamped)

\* SSMParameter._refresh, after "if self._group: self._group.refresh()" ended as first
SSMParameter__refresh_self(first, i, rev) ==
    IF first.err # "" THEN first
    ELSE SSMParameter__refresh_got(first, i,
             _get_parameters(<<full_name(first.objs[i])>>, rev))

\* _refresh without "if self._group: self._group.refresh()"
SSMParameter__refresh_alone(os, g, i, rev) ==
    SSMParameter__refresh_self(Outcome(os, g, "", <<>>, <<>>, <<>>), i, rev)

\* SSMParameter._refresh, of object i
SSMParameter__refresh(os, g, i, rev) ==
    SSMParameter__refresh_self(
        IF HasGroup(os[i], g) THEN SSMParameterGroup_refresh(os, g, rev)
        ELSE Outcome(os, g, "", <<>>, <<>>, <<>>),
        i, rev)

\* a refresh that updates the refresh time whether or not _refresh() raised
ParameterRefreshed_always(done, i) ==
    [done EXCEPT !.objs[i]._last_refresh_time =
                     _update_refresh_time(done.objs[i], FALSE)]

\* Refreshable.refresh, after self._refresh() ended as done: the object's
\* _update_refresh_time() unless it raised
ParameterRefreshed(done, i) ==
    IF done.err # "" THEN done
    ELSE [done EXCEPT !.objs[i]._last_refresh_time =
                          _update_refresh_time(done.objs[i], FALSE)]

\* Refreshable.refresh, of object i
SSMParameter_refresh(os, g, i, rev) ==
    ParameterRefreshed(SSMParameter__refresh(os, g, i, rev), i)

\* SSMParameter.value, up to its return
value(os, g, i, rev) ==
    IF os[i]._value = NoValue \/ SSMParameter_should_refresh(os[i], g)
    THEN SSMParameter_refresh(os, g, i, rev)
    ELSE Outcome(os, g, "", <<>>, <<>>, <<>>)

\* SSMParameter.version, up to its return
version(os, g, i, rev) ==
    IF os[i]._version = None \/ SSMParameter_should_refresh(os[i], g)
    THEN SSMParameter_refresh(os, g, i, rev)
    ELSE Outcome(os, g, "", <<>>, <<>>, <<>>)

-----------------------------------------------------------------------------
(* class SecretsManagerParameter, and SSMParameterGroup.secret *)

\* SecretsManagerParameter.PREFIX: "/aws/reference/secretsmanager/"
PREFIX == <<"/", "aws", "/", "reference", "/", "secretsmanager", "/">>

\* SecretsManagerParameter._add_prefix: the name it returns, or the error raised
_add_prefix(param_name) ==
    IF Len(param_name) = 0 THEN [err |-> "ValueError", name |-> param_name]
    ELSE IF ~startswith(param_name, PREFIX)
    THEN IF startswith(param_name, <<"/">>)
         THEN [err |-> "InvalidParameterError", name |-> param_name]
         ELSE [err |-> "", name |-> PREFIX \o param_name]
    ELSE [err |-> "", name |-> param_name]

\* SecretsManagerParameter.__init__, after _add_prefix returned added or raised
SecretsManagerParameter_added(added, max_age) ==
    IF added.err # "" THEN [err |-> added.err]
    ELSE SSMParameter(added.name, max_age)

\* SecretsManagerParameter.__init__: the new object, or the error
SecretsManagerParameter(param_name, max_age) ==
    SecretsManagerParameter_added(_add_prefix(param_name), max_age)

\* SSMParameterGroup.secret: the object returned is obj
secret(os, g, name) ==
    IF Registered(g, name)
    THEN [err |-> "", objs |-> os, group |-> g, obj |-> Lookup(g, name)]
    ELSE parameter_made(os, g, name, SecretsManagerParameter(name, None))

-----------------------------------------------------------------------------
(* The inputs of the calls *)

\* max_age: None, or a number of seconds
MaxAges == {None} \cup 0..MaxMaxAge

\* SSMParameterGroup(base_path=...): none, or "/a"
BasePaths == {<<>>, <<"/", "a">>}

\* SSMParameter(param_name): "/a/p", "/a/p:1", "/a/p:2"
ParamNames == {NameP, NameP \o <<":", "1">>, NameP \o <<":", "2">>}

\* group.parameter(path): "/p", "/a/p", "/a/p:1"
GroupPaths == {<<"/", "p">>, NameP, NameP \o <<":", "1">>}

\* the parameters that are rewritten while the program runs
PutNames == {NameP}

\* group.parameters(path): "", "/a", "/b", "b"
DiscoveryPaths == {<<>>, <<"/", "a">>, <<"/", "b">>, <<"b">>}

-----------------------------------------------------------------------------
(* The state machine *)

\* SSMParameterGroup(max_age=max_age, base_path=base_path), for a valid base path
SSMParameterGroup(max_age, base_path) ==
    [made |-> TRUE, _max_age |-> max_age, _last_refresh_time |-> None,
     _base_path |-> base_path, _parameters |-> <<>>]

\* the program made no group: it uses standalone parameters
NoGroup == [SSMParameterGroup(None, <<>>) EXCEPT !.made = FALSE]

\* the history after a call that updated the group's refresh time as stamped says
Stamped(stamped) ==
    IF Len(stamped) = 0 THEN stamps
    ELSE IF stamped = <<"parameters">> /\ stamps # <<None>> /\ Len(stamps) < MaxStamps
    THEN Append(stamps, now)
    ELSE <<None>>

\* no decorator was made
NoDeco == [made |-> FALSE]

\* no call of the decorated function has ended
NoResult == [kind |-> "none"]

\* the program has made no filter
NoFilter == [made |-> FALSE]

\* the program has made no chained store
NoChain == [made |-> FALSE]

\* the program has started no thread
NoThreads == [made |-> FALSE]

\* the program has made no decorator, filter or chained store, set no client and
\* started no thread
Undecorated ==
    /\ clients = Loaded
    /\ ssm_filter = NoFilter
    /\ chain = NoChain
    /\ threads = NoThreads
    /\ deco = NoDeco
    /\ pc = <<>>
    /\ trace = <<>>
    /\ result = NoResult

\* the program has made no decorator and constructs from names it spells out
NoAux ==
    /\ supplied = <<>>
    /\ Undecorated

\* the clock and the store when the program starts
Started ==
    /\ now = 0
    /\ backend = [n \in NameSet |-> IF n \in PutNames THEN 0 ELSE 1]
    /\ stamps = <<>>

\* A standalone parameter and a group share no state (an SSMParameter constructed
\* directly has no _group), and neither do two standalone parameters: a behaviour
\* is that of a program with a group, or that of one with standalone parameters.
Init ==
    /\ Started
    /\ objs = <<>>
    /\ group \in {NoGroup} \cup
                 {SSMParameterGroup(m, b) : m \in MaxAges, b \in BasePaths}
    /\ NoAux

\* the clock advances
Tick ==
    /\ now < MaxTime
    /\ now' = now + 1
    /\ UNCHANGED <<backend, objs, group, stamps>>
    /\ UNCHANGED aux_vars

\* somebody puts a new version of parameter n into the store
PutParameter(n) ==
    /\ backend[n] < MaxVersion
    /\ backend' = [backend EXCEPT ![n] = @ + 1]
    /\ UNCHANGED <<now, objs, group, stamps>>
    /\ UNCHANGED aux_vars

\* the objects after a constructor call that returned made.self or raised
Constructed(made) == IF made.err = "" THEN Append(objs, made.self) ELSE objs

\* SSMParameter(param_name, max_age=max_age), standalone
NewParameter(param_name, max_age) ==
    /\ ~group.made
    /\ Len(objs) < MaxStandalone
    /\ objs' = Constructed(SSMParameter(param_name, max_age))
    /\ UNCHANGED <<now, backend, group, stamps>>
    /\ UNCHANGED aux_vars

\* what is left of group.parameter() in the state, while the objects are within
\* the bound
Made(got) ==
    /\ Len(got.objs) <= MaxObjs
    /\ objs' = got.objs
    /\ group' = got.group
    /\ UNCHANGED <<now, backend, stamps>>

\* group.parameter(path)
GroupParameter(path) ==
    /\ group.made
    /\ Made(parameter(objs, group, path, TRUE))
    /\ UNCHANGED aux_vars

\* what is left of a call in the state, while the objects are within the bound
Done(done) ==
    /\ Len(done.objs) <= MaxObjs
    /\ objs' = done.objs
    /\ group' = done.group
    /\ stamps' = Stamped(done.stamped)
    /\ UNCHANGED <<now, backend>>

\* group.parameters(path, recursive=recursive)
GroupParameters(path, recursive) ==
    /\ group.made
    /\ Done(parameters(objs, group, path, recursive))
    /\ UNCHANGED aux_vars

\* group.refresh()
GroupRefresh(rev) ==
    /\ group.made
    /\ Done(SSMParameterGroup_refresh(objs, group, rev))
    /\ UNCHANGED aux_vars

\* objs[i].refresh()
ParameterRefresh(i, rev) ==
    /\ Done(SSMParameter_refresh(objs, group, i, rev))
    /\ UNCHANGED aux_vars

\* objs[i].value
ParameterValue(i, rev) ==
    /\ Done(value(objs, group, i, rev))
    /\ UNCHANGED aux_vars

\* objs[i].version
ParameterVersion(i, rev) ==
    /\ Done(version(objs, group, i, rev))
    /\ UNCHANGED aux_vars

Next ==
    \/ Tick
    \/ \E n \in PutNames : PutParameter(n)
    \/ \E param_name \in ParamNames, max_age \in MaxAges :
           NewParameter(param_name, max_age)
    \/ \E path \in GroupPaths : GroupParameter(path)
    \/ \E path \in DiscoveryPaths, recursive \in BOOLEAN :
           GroupParameters(path, recursive)
    \/ \E rev \in BOOLEAN : GroupRefresh(rev)
    \/ \E i \in 1..Len(objs), rev \in BOOLEAN : ParameterRefresh(i, rev)
    \/ \E i \in 1..Len(objs), rev \in BOOLEAN : ParameterValue(i, rev)
    \/ \E i \in 1..Len(objs), rev \in BOOLEAN : ParameterVersion(i, rev)

Spec == Init /\ [][Next]_vars

-----------------------------------------------------------------------------
(* A standalone parameter whose name the store may lose: somebody deletes  *)
(* the parameter after the entry fetched it                                *)

\* somebody deletes parameter n from the store: a later put starts at version 1
DeleteParameter(n) ==
    /\ backend[n] > 0
    /\ backend' = [backend EXCEPT ![n] = 0]
    /\ UNCHANGED <<now, objs, group, stamps>>
    /\ UNCHANGED aux_vars

StandaloneInit ==
    /\ Started
    /\ objs = <<>>
    /\ group = NoGroup
    /\ NoAux

StandaloneNext ==
    \/ Tick
    \/ \E n \in PutNames : PutParameter(n)
    \/ \E n \in PutNames : DeleteParameter(n)
    \/ \E param_name \in ParamNames, max_age \in MaxAges :
           NewParameter(param_name, max_age)
    \/ \E i \in 1..Len(objs), rev \in BOOLEAN : ParameterRefresh(i, rev)
    \/ \E i \in 1..Len(objs), rev \in BOOLEAN : ParameterValue(i, rev)
    \/ \E i \in 1..Len(objs), rev \in BOOLEAN : ParameterVersion(i, rev)

StandaloneSpec == StandaloneInit /\ [][StandaloneNext]_vars

-----------------------------------------------------------------------------
(* Construction from any name: SSMParameter(param_name) and                *)
(* group.parameter(path) for every name the caller may supply              *)

MaxNameLen == 5

\* what a supplied name is made of: a segment, the colon, digits, a sign, a letter
NameTokens == {"a", ":", "0", "1", "-", "x"}

SuppliedNames == UNION {[1..n -> NameTokens] : n \in 0..MaxNameLen}

ConstructInit ==
    /\ Started
    /\ objs = <<>>
    /\ group \in {NoGroup, SSMParameterGroup(None, <<>>)}
    /\ supplied \in SuppliedNames
    /\ Undecorated

ConstructNext ==
    \/ NewParameter(supplied, None)
    \/ GroupParameter(supplied)

ConstructSpec == ConstructInit /\ [][ConstructNext]_vars

-----------------------------------------------------------------------------
(* Registration in a group from any path: group.parameter(path),           *)
(* group.parameters(path) and group.secret(name) for every path or name    *)
(* the caller may supply                                                   *)

MaxPathLen == 4

\* what a supplied path is made of: the slash and two segments
PathTokens == {"/", "a", "p"}

\* the paths and names supplied: every string of tokens, and the names under
\* the prefix of the secrets
SuppliedPaths ==
    UNION {[1..n -> PathTokens] : n \in 0..MaxPathLen}
        \cup {PREFIX, PREFIX \o <<"p">>, SubSeq(PREFIX, 1, Len(PREFIX) - 1)}

\* a group just made, or one that has discovered the parameters below "/a"
RegisterInit ==
    /\ Started
    /\ \E b \in BasePaths :
           \/ /\ objs = <<>>
              /\ group = SSMParameterGroup(None, b)
           \/ /\ objs = parameters(<<>>, SSMParameterGroup(None, b),
                                   IF b = <<>> THEN <<"/", "a">> ELSE <<>>, TRUE).objs
              /\ group = parameters(<<>>, SSMParameterGroup(None, b),
                                    IF b = <<>> THEN <<"/", "a">> ELSE <<>>, TRUE).group
    /\ supplied \in SuppliedPaths
    /\ Undecorated

\* group.secret(name)
GroupSecret(name) ==
    /\ group.made
    /\ Made(secret(objs, group, name))
    /\ UNCHANGED aux_vars

RegisterNext ==
    \/ GroupParameter(supplied)
    \/ \E recursive \in BOOLEAN : GroupParameters(supplied, recursive)
    \/ GroupSecret(supplied)
    \/ \E n \in PutNames : PutParameter(n)

RegisterSpec == RegisterInit /\ [][RegisterNext]_vars

-----------------------------------------------------------------------------
(* The client of the classes: set_ssm_client on any class, and the fetches *)
(* of entries and groups                                                   *)

MaxClients == 2

\* the clients the caller may supply: with both methods, with one, with none
SuppliedClients ==
    {Client(id, methods) : id \in 1..MaxClients, methods \in SUBSET required_methods}

\* the operations a class fetches with
FetchOperations(cls) ==
    IF cls = "SSMParameterGroup" THEN {"get_parameters", "get_parameters_by_path"}
    ELSE {"get_parameters"}

ClientInit ==
    /\ Started
    /\ objs = <<>>
    /\ group = NoGroup
    /\ NoAux

\* cls.set_ssm_client(client)
SetClient(cls, client) ==
    /\ clients' = set_ssm_client(clients, cls, client).clients
    /\ UNCHANGED <<now, backend, objs, group, stamps, supplied, deco, pc, trace, result,
                 ssm_filter, chain, threads>>

\* an object of class cls fetches, with operation api
Fetch(cls, api) ==
    /\ clients' = FetchClient(clients, cls).clients
    /\ UNCHANGED <<now, backend, objs, group, stamps, supplied, deco, pc, trace, result,
                 ssm_filter, chain, threads>>

ClientNext ==
    \/ \E cls \in Classes, client \in SuppliedClients : SetClient(cls, client)
    \/ \E cls \in Classes \ {"Refreshable"} :
           \E api \in FetchOperations(cls) : Fetch(cls, api)

ClientSpec == ClientInit /\ [][ClientNext]_vars

-----------------------------------------------------------------------------
(* A group of many parameters: group.refresh() over more names than one    *)
(* request takes                                                           *)

MaxGroupSize == 21

\* the name of the k-th parameter of the group: "/n1", "/n2", ...
BatchName(k) == <<"/", "n">> \o str(k)

\* a group just made, and a store that holds every name of the group but some of
\* three, which are the first names of three batches
BatchInit ==
    /\ now = 0
    /\ stamps = <<>>
    /\ \E missing \in SUBSET {1, BatchSize + 1, 2 * BatchSize + 1} :
           backend = [n \in {BatchName(k) : k \in 1..MaxGroupSize} |->
                         IF \E k \in missing : n = BatchName(k) THEN 0 ELSE 1]
    /\ objs = <<>>
    /\ group = SSMParameterGroup(None, <<>>)
    /\ NoAux

\* what is left of a call of the group in the state
Kept(done) ==
    /\ objs' = done.objs
    /\ group' = done.group
    /\ UNCHANGED <<now, backend, stamps>>
    /\ UNCHANGED aux_vars

\* group.parameter(name), for the next name
AddParameter ==
    /\ len(group) < MaxGroupSize
    /\ Kept(parameter(objs, group, BatchName(len(group) + 1), TRUE))

\* group.refresh(), of the group of many
RefreshAll(rev) == Kept(SSMParameterGroup_refresh(objs, group, rev))

BatchNext ==
    \/ AddParameter
    \/ \E rev \in BOOLEAN : RefreshAll(rev)

BatchSpec == BatchInit /\ [][BatchNext]_vars

-----------------------------------------------------------------------------
(* Refreshable.refresh_on_error: the decorator, and a call of the function *)
(* it wraps.  The function and the callback are the caller's code: how     *)
(* each of them ends is the caller's choice.                               *)

\* error_callback: None, a function, a non-empty string, the empty string
ErrorCallbacks == {"None", "callable", "string", "empty"}

\* bool(error_callback)
truthy(error_callback) == error_callback \in {"callable", "string"}

\* callable(error_callback)
callable(error_callback) == error_callback = "callable"

\* retry_argument: the default name, or an empty one
RetryArguments == {"is_retry", ""}

\* the object the decorator belongs to: objs[1], or the group
Owners == {"parameter", "group"}

\* refresh_on_error(error_class, error_callback, retry_argument) of owner self
refresh_on_error(self, error_callback, retry_argument) ==
    IF truthy(error_callback) /\ ~callable(error_callback)
    THEN [err |-> "TypeError", deco |-> NoDeco]
    ELSE [err |-> "",
          deco |-> [made |-> TRUE, self |-> self, error_callback |-> error_callback,
                    retry_argument |-> retry_argument]]

\* a call the wrapper made, with the retry argument it passed and how it ended:
\* "return", or the error raised
Ended(call, is_retry, out) == [call |-> call, is_retry |-> is_retry, out |-> out]

\* the wrapped call returned what call k of the trace returned
Returned(k) == [kind |-> "return", from |-> k]

\* the wrapped call raised what call k of the trace raised
Raised(k) == [kind |-> "raise", from |-> k]

\* the except clause without the refresh
except_steps_no_refresh(d) ==
    (IF truthy(d.error_callback) THEN <<"error_callback">> ELSE <<>>) \o <<"retry">>

\* the except clause with the callback first
except_steps_callback_first(d) ==
    (IF truthy(d.error_callback) THEN <<"error_callback">> ELSE <<>>)
        \o <<"refresh", "retry">>

\* the body of "except error_class:": self.refresh(), error_callback() if there
\* is one, and func once more
except_steps(d) ==
    <<"refresh">>
        \o (IF truthy(d.error_callback) THEN <<"error_callback">> ELSE <<>>)
        \o <<"retry">>

\* a try that catches every error of the first call
handles_any_error(step, matches) == step = "func"

\* a try around the second call too
handles_every_attempt(step, matches) == matches

\* "try: return func(...) except error_class:" is around the first call only
handles(step, matches) == step = "func" /\ matches

\* "if retry_argument: kwargs[retry_argument] = True", before the second call
is_retry(d, step) == step = "retry" /\ d.retry_argument # ""

\* the program of tests/decorator_test.py: a standalone parameter, or a group with
\* a parameter, before anything was fetched
WrapInit ==
    /\ Started
    /\ supplied = <<>>
    /\ Undecorated
    /\ \/ /\ objs = <<SSMParameter(NameP, None).self>>
          /\ group = NoGroup
       \/ /\ objs = parameter(<<>>, SSMParameterGroup(None, <<>>), NameP, TRUE).objs
          /\ group = parameter(<<>>, SSMParameterGroup(None, <<>>), NameP, TRUE).group

\* self.refresh_on_error(error_class, error_callback, retry_argument)
Decorate(self, error_callback, retry_argument) ==
    /\ ~deco.made
    /\ self = "group" => group.made
    /\ deco' = refresh_on_error(self, error_callback, retry_argument).deco
    /\ UNCHANGED <<now, backend, objs, group, stamps, supplied, clients,
                 ssm_filter, chain, threads, pc, trace, result>>

\* the caller calls the decorated function: wrapped() calls func
Call ==
    /\ deco.made
    /\ pc = <<>>
    /\ pc' = <<"func">>
    /\ trace' = <<>>
    /\ result' = NoResult
    /\ UNCHANGED <<now, backend, objs, group, stamps, supplied, clients,
                 ssm_filter, chain, threads, deco>>

\* func returns: "return func(*args, **kwargs)"
FuncReturns ==
    /\ pc # <<>>
    /\ Head(pc) \in {"func", "retry"}
    /\ trace' = Append(trace, Ended("func", is_retry(deco, Head(pc)), "return"))
    /\ pc' = <<>>
    /\ result' = Returned(Len(trace) + 1)
    /\ UNCHANGED <<now, backend, objs, group, stamps, supplied, clients,
                 ssm_filter, chain, threads, deco>>

\* func raises an error, of error_class (matches) or not
FuncRaises(matches) ==
    /\ pc # <<>>
    /\ Head(pc) \in {"func", "retry"}
    /\ trace' = Append(trace, Ended("func", is_retry(deco, Head(pc)),
                                    IF matches THEN "error_class" ELSE "other_error"))
    /\ IF handles(Head(pc), matches)
       THEN /\ pc' = except_steps(deco)
            /\ UNCHANGED result
       ELSE /\ pc' = <<>>
            /\ result' = Raised(Len(trace) + 1)
    /\ UNCHANGED <<now, backend, objs, group, stamps, supplied, clients,
                 ssm_filter, chain, threads, deco>>

\* self.refresh(), of the decorator's owner
OwnerRefresh(d, rev) ==
    IF d.self = "group" THEN SSMParameterGroup_refresh(objs, group, rev)
    ELSE SSMParameter_refresh(objs, group, 1, rev)

\* an except clause that goes on after a refresh that raised
Refreshed_swallowing(done) ==
    /\ Done(done)
    /\ trace' = Append(trace, Ended("refresh", FALSE,
                                    IF done.err = "" THEN "return" ELSE done.err))
    /\ pc' = Tail(pc)
    /\ UNCHANGED <<supplied, clients,
                 ssm_filter, chain, threads, deco, result>>

\* "self.refresh()" in the except clause ended as done: an error it raises leaves
\* wrapped()
Refreshed(done) ==
    /\ Done(done)
    /\ trace' = Append(trace, Ended("refresh", FALSE,
                                    IF done.err = "" THEN "return" ELSE done.err))
    /\ IF done.err = ""
       THEN /\ pc' = Tail(pc)
            /\ UNCHANGED result
       ELSE /\ pc' = <<>>
            /\ result' = Raised(Len(trace) + 1)
    /\ UNCHANGED <<supplied, clients,
                 ssm_filter, chain, threads, deco>>

WrappedRefresh(rev) ==
    /\ pc # <<>>
    /\ Head(pc) = "refresh"
    /\ Refreshed(OwnerRefresh(deco, rev))

\* error_callback() returns
CallbackReturns ==
    /\ pc # <<>>
    /\ Head(pc) = "error_callback"
    /\ trace' = Append(trace, Ended("error_callback", FALSE, "return"))
    /\ pc' = Tail(pc)
    /\ UNCHANGED <<now, backend, objs, group, stamps, supplied, clients,
                 ssm_filter, chain, threads, deco, result>>

\* error_callback() raises: the error leaves wrapped()
CallbackRaises ==
    /\ pc # <<>>
    /\ Head(pc) = "error_callback"
    /\ trace' = Append(trace, Ended("error_callback", FALSE, "other_error"))
    /\ pc' = <<>>
    /\ result' = Raised(Len(trace) + 1)
    /\ UNCHANGED <<now, backend, objs, group, stamps, supplied, clients,
                 ssm_filter, chain, threads, deco>>

WrapNext ==
    \/ \E self \in Owners, error_callback \in ErrorCallbacks,
          retry_argument \in RetryArguments :
           Decorate(self, error_callback, retry_argument)
    \/ Call
    \/ FuncReturns
    \/ \E matches \in BOOLEAN : FuncRaises(matches)
    \/ \E rev \in BOOLEAN : WrappedRefresh(rev)
    \/ CallbackReturns
    \/ CallbackRaises
    \/ \E n \in PutNames : PutParameter(n)

WrapSpec == WrapInit /\ [][WrapNext]_vars

-----------------------------------------------------------------------------
(* ssm_cache/filters.py: class SSMFilter.  A value is a number, as in       *)
(* tests/filters_test.py; the caller adds a value the filter holds or the  *)
(* least one it does not hold.                                             *)

MaxFilterValues == 50

MaxListLen == 3

KEY_ALLOWED_VALUES == {"Name", "Type", "KeyId", "Path"}

OPTION_ALLOWED_VALUES == {"Equals", "BeginsWith"}

OPTION_PATH_ALLOWED_VALUES == {"Recursive", "OneLevel"}

\* SSMFilter._validate_config: TRUE unless it raises ValueError
_validate_config(key, option) ==
    /\ key \in KEY_ALLOWED_VALUES
    /\ key # "Path" => option \in OPTION_ALLOWED_VALUES
    /\ key = "Path" => option \in OPTION_PATH_ALLOWED_VALUES

\* SSMFilter(key, option): the new object, or the error
SSMFilter(key, option) ==
    IF ~_validate_config(key, option) THEN [err |-> "ValueError", self |-> NoFilter]
    ELSE [err |-> "",
          self |-> [made |-> TRUE, _key |-> key, _option |-> option, _values |-> {}]]

\* value() without its test of the size
SSMFilter_value_unbounded(self, v) ==
    [err |-> "", self |-> [self EXCEPT !._values = @ \cup {v}]]

\* SSMFilter.value
SSMFilter_value(self, v) ==
    IF Cardinality(self._values) = MaxFilterValues
    THEN [err |-> "ValueError", self |-> self]
    ELSE [err |-> "", self |-> [self EXCEPT !._values = @ \cup {v}]]

\* SSMFilter.values: self.value(value) for every value in turn, up to the first
\* that raises
RECURSIVE SSMFilter_values(_, _)
SSMFilter_values_next(added, rest) ==
    IF added.err # "" THEN added ELSE SSMFilter_values(added.self, rest)

SSMFilter_values(self, vs) ==
    IF Len(vs) = 0 THEN [err |-> "", self |-> self]
    ELSE SSMFilter_values_next(SSMFilter_value(self, Head(vs)), Tail(vs))

\* the keys and options the caller may supply
FilterKeys == KEY_ALLOWED_VALUES \cup {"Invalid name"}

FilterOptions ==
    OPTION_ALLOWED_VALUES \cup OPTION_PATH_ALLOWED_VALUES \cup {"Invalid option"}

\* the values the caller may add: one the filter holds, or the least one it does
\* not hold
FilterValueInputs == {0, Cardinality(ssm_filter._values)}

\* the lists the caller may add: the next values the filter does not hold, or
\* one it holds and one it does not
FilterListInputs ==
    {[j \in 1..k |-> Cardinality(ssm_filter._values) + j - 1] : k \in 0..MaxListLen}
        \cup {<<0, Cardinality(ssm_filter._values)>>}

FilterInit ==
    /\ Started
    /\ objs = <<>>
    /\ group = NoGroup
    /\ NoAux

\* ssm_filter = SSMFilter(key, option)
NewFilter(key, option) ==
    /\ ~ssm_filter.made
    /\ ssm_filter' = SSMFilter(key, option).self
    /\ UNCHANGED <<now, backend, objs, group, stamps, supplied, deco, pc, trace, result,
                   clients, chain, threads>>

\* ssm_filter.value(v)
FilterValue(v) ==
    /\ ssm_filter' = SSMFilter_value(ssm_filter, v).self
    /\ UNCHANGED <<now, backend, objs, group, stamps, supplied, deco, pc, trace, result,
                   clients, chain, threads>>

\* ssm_filter.values(vs)
FilterValues(vs) ==
    /\ ssm_filter' = SSMFilter_values(ssm_filter, vs).self
    /\ UNCHANGED <<now, backend, objs, group, stamps, supplied, deco, pc, trace, result,
                   clients, chain, threads>>

FilterNext ==
    \/ \E key \in FilterKeys, option \in FilterOptions : NewFilter(key, option)
    \/ /\ ssm_filter.made
       /\ \E v \in FilterValueInputs : FilterValue(v)
    \/ /\ ssm_filter.made
       /\ \E vs \in FilterListInputs : FilterValues(vs)

FilterSpec == FilterInit /\ [][FilterNext]_vars

-----------------------------------------------------------------------------
(* ssm_cache/chain.py, env.py and ssm.py: a chain of parameter stores.  A   *)
(* store's parameters(names, with_decryption) returns (values,             *)
(* invalid_names); values is a dict, here a function of the names.         *)

MaxStores == 2

\* c.upper(), for a token c
UpperToken(c) ==
    CASE c = "a" -> "A" [] c = "b" -> "B" [] c = "p" -> "P" [] c = "q" -> "Q"
      [] c = "x" -> "X" [] OTHER -> c

\* s.upper()
upper(s) == [k \in 1..Len(s) |-> UpperToken(s[k])]

\* EnvironmentParameterStore(prefix)
EnvironmentParameterStore(prefix) == [kind |-> "env", _prefix |-> prefix]

\* SSMParameterStore()
SSMParameterStore == [kind |-> "ssm"]

\* os.environ[var], for a variable the program has set
EnvValue(var) == <<"env">> \o var

\* EnvironmentParameterStore.parameters: the loop over the names
RECURSIVE EnvironmentParameterStore_parameters(_, _, _, _)
EnvironmentParameterStore_parameters(self, environ, names, acc) ==
    IF Len(names) = 0 THEN acc
    ELSE EnvironmentParameterStore_parameters(self, environ, Tail(names),
             IF upper(self._prefix \o Head(names)) \in environ
             THEN [acc EXCEPT !.values =
                       (Head(names) :> EnvValue(upper(self._prefix \o Head(names)))) @@ @]
             ELSE [acc EXCEPT !.invalid_names = Append(@, Head(names))])

\* values[item['Name']] = item['Value'], for every item in turn
RECURSIVE StoreValues(_, _)
StoreValues(values, Parameters) ==
    IF Len(Parameters) = 0 THEN values
    ELSE StoreValues((Head(Parameters).Name :> Head(Parameters).Value) @@ values,
                     Tail(Parameters))

\* the body of the loop of SSMParameterStore.parameters, for the response to one batch
AddStoreResponse(acc, response) ==
    [values |-> StoreValues(acc.values, response.Parameters),
     invalid_names |-> acc.invalid_names \o response.InvalidParameters]

\* SSMParameterStore.parameters: the loop over the batches
RECURSIVE SSMParameterStore_parameters(_, _, _)
SSMParameterStore_parameters(batches, rev, acc) ==
    IF Len(batches) = 0 THEN acc
    ELSE SSMParameterStore_parameters(Tail(batches), rev,
             AddStoreResponse(acc, get_parameters(Head(batches), rev)))

\* store.parameters(names, with_decryption)
store_parameters(store, environ, names, rev) ==
    IF store.kind = "env"
    THEN EnvironmentParameterStore_parameters(store, environ, names,
             [values |-> <<>>, invalid_names |-> <<>>])
    ELSE SSMParameterStore_parameters(_batch(names, BatchSize), rev,
             [values |-> <<>>, invalid_names |-> <<>>])

\* ChainedParameterStore.parameters: the loop over the stores; ChainedStep is its
\* body after store.parameters() returned cur.  asked is the history of the
\* names each store was asked for.
RECURSIVE ChainedLoop(_, _, _, _)
ChainedStep(stores, environ, rev, acc, cur) ==
    IF Len(cur.invalid_names) = 0
    THEN [values |-> cur.values @@ acc.values, invalid_names |-> cur.invalid_names,
          asked |-> Append(acc.asked, acc.invalid_names)]
    ELSE ChainedLoop(Tail(stores), environ, rev,
             [values |-> cur.values @@ acc.values, invalid_names |-> cur.invalid_names,
              asked |-> Append(acc.asked, acc.invalid_names)])

ChainedLoop(stores, environ, rev, acc) ==
    IF Len(stores) = 0 THEN acc
    ELSE ChainedStep(stores, environ, rev, acc,
             store_parameters(Head(stores), environ, acc.invalid_names, rev))

\* ChainedParameterStore.parameters
ChainedParameterStore_parameters(self, names, rev) ==
    ChainedLoop(self._stores, self.environ, rev,
        [values |-> <<>>, invalid_names |-> names, asked |-> <<>>])

\* stores=None
NoStores == <<[kind |-> "None"]>>

\* ChainedParameterStore(stores): the chain, with os.environ and nothing returned yet
ChainedParameterStore(stores) ==
    [made |-> TRUE,
     _stores |-> IF stores = NoStores
                 THEN <<EnvironmentParameterStore(<<>>), SSMParameterStore>>
                 ELSE stores,
     environ |-> {},
     values |-> <<>>, invalid_names |-> <<>>, asked |-> <<>>]

\* the stores the caller may chain
StoreChoices ==
    {EnvironmentParameterStore(<<>>), EnvironmentParameterStore(<<"x">>),
     SSMParameterStore}

\* the lists of stores the caller may supply: None, or up to MaxStores stores
ChainStores ==
    {NoStores} \cup UNION {[1..k -> StoreChoices] : k \in 0..MaxStores}

\* the names the caller may ask for
ChainNames ==
    {<<>>, <<NameP>>, <<NameQ, NameP>>, <<NameP \o <<":", "1">>>>,
     <<NameP, NameP \o <<":", "1">>>>, <<NameP \o <<":", "1">>, NameP>>,
     <<NameP, upper(NameP)>>}

\* the environment variables the program may set
EnvironNames == {upper(NameP), upper(<<"x">> \o NameP)}

ChainInit ==
    /\ Started
    /\ objs = <<>>
    /\ group = NoGroup
    /\ NoAux

\* chain = ChainedParameterStore(stores)
NewChain(stores) ==
    /\ ~chain.made
    /\ chain' = ChainedParameterStore(stores)
    /\ UNCHANGED <<now, backend, objs, group, stamps, supplied, deco, pc, trace, result,
                   clients, ssm_filter, threads>>

\* os.environ[var] = EnvValue(var)
SetEnviron(var) ==
    /\ chain.made
    /\ chain' = [chain EXCEPT !.environ = @ \cup {var}]
    /\ UNCHANGED <<now, backend, objs, group, stamps, supplied, deco, pc, trace, result,
                   clients, ssm_filter, threads>>

\* what is left of chain.parameters() in the state
Chained(got) ==
    /\ chain' = [chain EXCEPT !.values = got.values,
                              !.invalid_names = got.invalid_names,
                              !.asked = got.asked]
    /\ UNCHANGED <<now, backend, objs, group, stamps, supplied, deco, pc, trace, result,
                   clients, ssm_filter, threads>>

\* chain.parameters(names, with_decryption)
ChainParameters(names, rev) ==
    /\ chain.made
    /\ Chained(ChainedParameterStore_parameters(chain, names, rev))

ChainNext ==
    \/ \E stores \in ChainStores : NewChain(stores)
    \/ \E var \in EnvironNames : SetEnviron(var)
    \/ \E n \in PutNames : PutParameter(n)
    \/ \E names \in ChainNames, rev \in BOOLEAN : ChainParameters(names, rev)

ChainSpec == ChainInit /\ [][ChainNext]_vars

-----------------------------------------------------------------------------
(* Threads: refresh() of one standalone entry, objs[1], called from several *)
(* threads.  The library takes no lock: a thread may be switched out       *)
(* between any two statements of refresh(), unless the caller serializes   *)
(* the calls with a lock of its own.  Every fetch has a number, its place  *)
(* in the history threads.fetches; the history says which fetch the        *)
(* entry's _value and _version are of and which refresh set its            *)
(* _last_refresh_time.                                                     *)

MaxThreads == 2

MaxRefreshes == 3

\* a thread outside refresh()
Idle == [pc |-> "idle", id |-> 0, now |-> None]

\* every thread is outside refresh()
AllIdle == \A u \in 1..MaxThreads : threads.of[u] = Idle

\* the program starts its threads; locked: the caller holds a lock around refresh()
StartThreads(locked) ==
    /\ ~threads.made
    /\ threads' = [made |-> TRUE, locked |-> locked,
                   of |-> [u \in 1..MaxThreads |-> Idle],
                   fetches |-> <<>>, value_of |-> 0, version_of |-> 0, stamp_of |-> 0]
    /\ UNCHANGED <<now, backend, objs, group, stamps, supplied, deco, pc, trace, result,
                   clients, ssm_filter, chain>>

\* a refresh() that goes on to _update_refresh_time after _refresh raised
Fetched_finally(t, got) ==
    IF Len(got.invalid_names) > 0 \/ objs[1]._name \notin DOMAIN got.items
    THEN threads' = [threads EXCEPT
                        !.fetches = Append(@, [Value |-> NoValue, Version |-> None]),
                        !.of[t] = [pc |-> "clock", id |-> Len(threads.fetches) + 1,
                                   now |-> None]]
    ELSE threads' = [threads EXCEPT
                        !.fetches = Append(@, got.items[objs[1]._name]),
                        !.of[t] = [pc |-> "value", id |-> Len(threads.fetches) + 1,
                                   now |-> None]]

\* SSMParameter._refresh, after _get_parameters returned got to thread t: the
\* raise leaves refresh(), or the thread holds the item
Fetched(t, got) ==
    IF Len(got.invalid_names) > 0 \/ objs[1]._name \notin DOMAIN got.items
    THEN UNCHANGED threads
    ELSE threads' = [threads EXCEPT
                        !.fetches = Append(@, got.items[objs[1]._name]),
                        !.of[t] = [pc |-> "value", id |-> Len(threads.fetches) + 1,
                                   now |-> None]]

\* thread t calls objs[1].refresh(): _refresh up to the answer of _get_parameters
ThreadFetch(t, rev) ==
    /\ threads.made
    /\ threads.of[t].pc = "idle"
    /\ threads.locked => AllIdle
    /\ Len(threads.fetches) < MaxRefreshes
    /\ Fetched(t, _get_parameters(<<full_name(objs[1])>>, rev))
    /\ UNCHANGED <<now, backend, objs, group, stamps, supplied, deco, pc, trace, result,
                   clients, ssm_filter, chain>>

\* self._value = items[self._name]['Value']
ThreadValue(t) ==
    /\ threads.made
    /\ threads.of[t].pc = "value"
    /\ objs' = [objs EXCEPT ![1]._value = threads.fetches[threads.of[t].id].Value]
    /\ threads' = [threads EXCEPT !.value_of = threads.of[t].id,
                                  !.of[t].pc = "version"]
    /\ UNCHANGED <<now, backend, group, stamps, supplied, deco, pc, trace, result,
                   clients, ssm_filter, chain>>

\* self._version = items[self._name]['Version']
ThreadVersion(t) ==
    /\ threads.made
    /\ threads.of[t].pc = "version"
    /\ objs' = [objs EXCEPT ![1]._version = threads.fetches[threads.of[t].id].Version]
    /\ threads' = [threads EXCEPT !.version_of = threads.of[t].id,
                                  !.of[t].pc = "clock"]
    /\ UNCHANGED <<now, backend, group, stamps, supplied, deco, pc, trace, result,
                   clients, ssm_filter, chain>>

\* _update_refresh_time: now = datetime.utcnow()
ThreadClock(t) ==
    /\ threads.made
    /\ threads.of[t].pc = "clock"
    /\ threads' = [threads EXCEPT !.of[t].now = now, !.of[t].pc = "stamp"]
    /\ UNCHANGED <<now, backend, objs, group, stamps, supplied, deco, pc, trace, result,
                   clients, ssm_filter, chain>>

\* _update_refresh_time: self._last_refresh_time = now; refresh() returns
ThreadStamp(t) ==
    /\ threads.made
    /\ threads.of[t].pc = "stamp"
    /\ objs' = [objs EXCEPT ![1]._last_refresh_time = threads.of[t].now]
    /\ threads' = [threads EXCEPT !.stamp_of = threads.of[t].id, !.of[t] = Idle]
    /\ UNCHANGED <<now, backend, group, stamps, supplied, deco, pc, trace, result,
                   clients, ssm_filter, chain>>

\* one standalone entry, shared by the threads
ThreadInit ==
    /\ Started
    /\ objs = <<SSMParameter(NameP, None).self>>
    /\ group = NoGroup
    /\ NoAux

ThreadNext ==
    \/ \E locked \in BOOLEAN : StartThreads(locked)
    \/ \E t \in 1..MaxThreads, rev \in BOOLEAN : ThreadFetch(t, rev)
    \/ \E t \in 1..MaxThreads : ThreadValue(t)
    \/ \E t \in 1..MaxThreads : ThreadVersion(t)
    \/ \E t \in 1..MaxThreads : ThreadClock(t)
    \/ \E t \in 1..MaxThreads : ThreadStamp(t)
    \/ Tick
    \/ \E n \in PutNames : PutParameter(n)

ThreadSpec == ThreadInit /\ [][ThreadNext]_vars

-----------------------------------------------------------------------------
(* Properties.  A property of a call is stated of its Outcome in every     *)
(* reachable state: whatever the state the call is made in, it does this.  *)

\* the timing attributes of a Refreshable
Tracker(r) == [_max_age |-> r._max_age, _last_refresh_time |-> r._last_refresh_time]

\* every tracker of the program: each entry's own, and the group's
Trackers ==
    {Tracker(objs[i]) : i \in 1..Len(objs)}
        \cup (IF group.made THEN {Tracker(group)} ELSE {})

\* the value the store serves now for a key
Served(key) == _parse_value(Item(key).Value, Item(key).Type)

\* C1: a standalone entry with no max_age that holds a value keeps returning it
\* from value() without a request to the store, whatever the time and the
\* store's content; after a successful refresh(), value() returns what the store
\* serves for its key now, again without a request.
C1_CachedUntilExplicitRefresh ==
    \A i \in 1..Len(objs), rev \in BOOLEAN :
        (~objs[i]._group /\ objs[i]._max_age = None) =>
            LET got == value(objs, group, i, rev)
                fresh == SSMParameter_refresh(objs, group, i, rev)
                after == value(fresh.objs, fresh.group, i, rev)
            IN  /\ objs[i]._value # NoValue =>
                       /\ got.err = ""
                       /\ got.calls = <<>>
                       /\ got.objs = objs
                /\ fresh.err = "" =>
                       /\ after.err = ""
                       /\ after.calls = <<>>
                       /\ after.objs[i]._value = Served(full_name(objs[i]))

\* C1's case: the value was fetched earlier, the store serves another one now,
\* and value() still answers from the cache
C1_Witness ==
    \E i \in 1..Len(objs) :
        /\ ~objs[i]._group /\ objs[i]._max_age = None
        /\ objs[i]._value # NoValue
        /\ objs[i].fetched < now
        /\ Resolves(full_name(objs[i]))
        /\ Served(full_name(objs[i])) # objs[i]._value
        /\ value(objs, group, i, FALSE).calls = <<>>
        /\ SSMParameter_refresh(objs, group, i, FALSE).err = ""

\* the max_age that governs entry i: the group's when the entry has a group,
\* its own otherwise
GoverningMaxAge(i) ==
    IF HasGroup(objs[i], group) THEN group._max_age ELSE objs[i]._max_age

\* C2: for every entry governed by a max_age T, whenever value() returns at time
\* now, the value it returns was obtained from the store at a time f with
\* now <= f + T.
C2_NeverOlderThanMaxAge ==
    \A i \in 1..Len(objs), rev \in BOOLEAN :
        LET got == value(objs, group, i, rev)
        IN  (GoverningMaxAge(i) # None /\ got.err = "") =>
                now <= got.objs[i].fetched + GoverningMaxAge(i)

\* C3: a tracker with a max_age T should refresh before any fetch, should not
\* right after a successful refresh, and should again once more than T seconds
\* have passed since the last one.
C3_TrueFalseTrue ==
    /\ \A t \in Trackers :
           t._max_age # None =>
               /\ t._last_refresh_time = None => Refreshable_should_refresh(t)
               /\ (t._last_refresh_time # None
                      /\ now > t._last_refresh_time + t._max_age) =>
                      Refreshable_should_refresh(t)
    /\ \A i \in 1..Len(objs), rev \in BOOLEAN :
           LET fresh == SSMParameter_refresh(objs, group, i, rev)
           IN  (objs[i]._max_age # None /\ fresh.err = "") =>
                   ~Refreshable_should_refresh(fresh.objs[i])
    /\ \A rev \in BOOLEAN :
           LET fresh == SSMParameterGroup_refresh(objs, group, rev)
           IN  (group.made /\ group._max_age # None /\ fresh.err = "") =>
                   ~Refreshable_should_refresh(fresh.group)

\* C4, as the specification states it: every entry and every group with no
\* max_age never should refresh.
C4_NoMaxAgeNeverRefreshes ==
    /\ \A i \in 1..Len(objs) :
           objs[i]._max_age = None => ~SSMParameter_should_refresh(objs[i], group)
    /\ (group.made /\ group._max_age = None) => ~Refreshable_should_refresh(group)

\* C4, amended: every standalone entry with no max_age, every group with no
\* max_age and every entry of such a group never should refresh, whatever the
\* time elapsed and whether or not anything was fetched or discovered.
C4_NoGoverningMaxAgeNeverRefreshes ==
    /\ \A i \in 1..Len(objs) :
           GoverningMaxAge(i) = None => ~SSMParameter_should_refresh(objs[i], group)
    /\ (group.made /\ group._max_age = None) => ~Refreshable_should_refresh(group)

\* C4's case: a group with no max_age that was refreshed or discovered some time
\* ago, with an entry that holds a value
C4_Witness ==
    /\ group.made /\ group._max_age = None
    /\ group._last_refresh_time # None
    /\ now > group._last_refresh_time
    /\ \E i \in 1..Len(objs) :
           /\ HasGroup(objs[i], group)
           /\ objs[i]._value # NoValue
           /\ ~SSMParameter_should_refresh(objs[i], group)

\* C5: a tracker with a max_age and a last refresh time t0 should refresh
\* exactly when now > t0 + max_age.
C5_IffPastMaxAge ==
    \A t \in Trackers :
        (t._max_age # None /\ t._last_refresh_time # None) =>
            (Refreshable_should_refresh(t) <=>
                 now > t._last_refresh_time + t._max_age)

\* C6: a tracker with a max_age, zero included, and no last refresh time should
\* refresh.
C6_TrueBeforeAnyRefresh ==
    \A t \in Trackers :
        (t._max_age # None /\ t._last_refresh_time = None) =>
            Refreshable_should_refresh(t)

\* C7: after two successful parameters() calls on a group at times t1 < t2, and
\* no other refresh of it, the group's last refresh time is t1, and the group
\* should refresh exactly when now is past t1 + max_age.
C7_OldestDiscoveryCounts ==
    (group.made /\ Len(stamps) = 2 /\ stamps[1] # None /\ stamps[1] < stamps[2]) =>
        /\ group._last_refresh_time = stamps[1]
        /\ group._max_age # None =>
               (Refreshable_should_refresh(group) <=> now > stamps[1] + group._max_age)

\* C8: in every group, with or without a base path, group.parameter(path) called
\* twice with the same path returns the same object both times, and a group that
\* was empty holds one parameter after the two calls.
C8_SameNameSameObject ==
    \A path \in GroupPaths :
        LET first == parameter(objs, group, path, TRUE)
            second == parameter(first.objs, first.group, path, TRUE)
        IN  (group.made /\ first.err = "") =>
                /\ second.err = ""
                /\ second.obj = first.obj
                /\ len(second.group) = len(first.group)
                /\ len(group) = 0 => len(second.group) = 1

\* the keys group.refresh() requests, in order, and those of them the store does
\* not resolve
RequestedKeys == [k \in 1..len(group) |-> full_name(objs[group._parameters[k].obj])]

UnresolvedKeys == SelectSeq(RequestedKeys, LAMBDA key : ~Resolves(key))

\* C9: if the store does not resolve some key group.refresh() requests, the call
\* raises InvalidParameterError with a message that names every such key, and it
\* changes no entry and not the group (its last refresh time included).
C9_GroupRefreshAllOrNothing ==
    \A rev \in BOOLEAN :
        LET done == SSMParameterGroup_refresh(objs, group, rev)
        IN  (group.made /\ Len(UnresolvedKeys) > 0) =>
                /\ done.err = "InvalidParameterError"
                /\ \A k \in 1..Len(UnresolvedKeys) :
                       \E j \in 1..Len(split(done.msg, ",")) :
                           split(done.msg, ",")[j] = UnresolvedKeys[k]
                /\ done.objs = objs
                /\ done.group = group

\* C9's case: a refreshed group with an entry that holds a value fetched earlier
\* and whose key still resolves, and another entry whose key does not; the
\* refresh raises
C9_Witness ==
    /\ group.made
    /\ group._last_refresh_time # None
    /\ Len(UnresolvedKeys) > 0
    /\ \E k \in 1..len(group) :
           LET e == objs[group._parameters[k].obj]
           IN  /\ Resolves(full_name(e))
               /\ e._value # NoValue
               /\ e.fetched < now
               /\ Served(full_name(e)) # e._value
    /\ SSMParameterGroup_refresh(objs, group, FALSE).err = "InvalidParameterError"

\* every successful refresh(), value or version of an entry and, when there is a
\* group, group.refresh(), as the Outcomes they may have in this state
SuccessfulCalls ==
    LET all == {SSMParameter_refresh(objs, group, j, rev) :
                    j \in 1..Len(objs), rev \in BOOLEAN}
               \cup {value(objs, group, j, rev) : j \in 1..Len(objs), rev \in BOOLEAN}
               \cup {version(objs, group, j, rev) : j \in 1..Len(objs), rev \in BOOLEAN}
               \cup (IF group.made
                     THEN {SSMParameterGroup_refresh(objs, group, rev) : rev \in BOOLEAN}
                     ELSE {})
    IN  {done \in all : done.err = ""}

\* C10: an entry pinned to version N stays so through every refresh(), group
\* refresh(), value and version: its version is N after the call as before it, a
\* value it holds is that of version N, and its key is name:N.
C10_PinnedStaysPinned ==
    \A i \in 1..Len(objs) :
        objs[i]._is_pinned_version =>
            \A done \in SuccessfulCalls :
                /\ done.objs[i]._version = objs[i]._version
                /\ full_name(done.objs[i]) =
                       objs[i]._name \o <<":">> \o str(objs[i]._version)
                /\ done.objs[i]._value # NoValue =>
                       done.objs[i]._value =
                           _parse_value(Content(objs[i]._name, objs[i]._version),
                                        TypeOf(objs[i]._name))

\* C13: refresh() of an entry of a group, and a value that refreshes it, sends
\* exactly one request to the store, the by-name request of the group for the
\* keys of all its entries (ten at most here), and no request for the entry alone.
C13_OneBatchedCallOnly ==
    \A i \in 1..Len(objs), rev \in BOOLEAN :
        objs[i]._group =>
            LET done == SSMParameter_refresh(objs, group, i, rev)
                got == value(objs, group, i, rev)
            IN  /\ done.err = "" =>
                       done.calls = <<Request("get_parameters", RequestedKeys)>>
                /\ (got.err = "" /\ got.calls # <<>>) =>
                       got.calls = <<Request("get_parameters", RequestedKeys)>>

\* every successful refresh() of an entry of the group and of the group itself, as
\* the Outcomes they may have in this state
SuccessfulGroupRefreshes ==
    LET all == {SSMParameter_refresh(objs, group, j, rev) :
                    j \in {h \in 1..Len(objs) : objs[h]._group}, rev \in BOOLEAN}
               \cup (IF group.made
                     THEN {SSMParameterGroup_refresh(objs, group, rev) : rev \in BOOLEAN}
                     ELSE {})
    IN  {done \in all : done.err = ""}

\* C14: after a successful refresh() of an entry of a group or of the group, every
\* entry registered in the group holds the value and the version the store serves
\* for its key, and the group's last refresh time is the time of the call.
C14_GroupRefreshUpdatesAll ==
    \A done \in SuccessfulGroupRefreshes :
        /\ done.group._last_refresh_time = now
        /\ \A k \in 1..len(group) :
               LET e == group._parameters[k].obj
               IN  /\ done.objs[e]._value = Served(full_name(objs[e]))
                   /\ done.objs[e]._version = Item(full_name(objs[e])).Version

\* C19: value of a standalone entry, pinned or not, whose key the store does not
\* resolve raises InvalidParameterError whenever it asks the store, and leaves the
\* entry as it was, so that the next call asks and raises again.
C19_UnresolvedValueRaises ==
    \A i \in 1..Len(objs), rev \in BOOLEAN :
        LET got == value(objs, group, i, rev)
        IN  (~objs[i]._group /\ ~Resolves(full_name(objs[i])) /\ got.calls # <<>>) =>
                /\ got.err = "InvalidParameterError"
                /\ got.objs = objs
                /\ value(got.objs, got.group, i, rev).err = "InvalidParameterError"

\* C19's case: the store holds the name, but not the version a standalone entry
\* is pinned to; value asks the store and raises
C19_Witness ==
    \E i \in 1..Len(objs) :
        /\ ~objs[i]._group
        /\ objs[i]._is_pinned_version
        /\ backend[objs[i]._name] >= 1
        /\ ~Resolves(full_name(objs[i]))
        /\ now > 0
        /\ value(objs, group, i, FALSE).calls # <<>>
        /\ value(objs, group, i, FALSE).err = "InvalidParameterError"

\* C20: an entry made through the group has no max_age of its own, and it should
\* refresh exactly when its group should.
C20_GroupedFollowGroup ==
    \A i \in 1..Len(objs) :
        objs[i]._group =>
            /\ objs[i]._max_age = None
            /\ SSMParameter_should_refresh(objs[i], group)
                   = Refreshable_should_refresh(group)

\* C20's case: a group with a max_age and two entries that were fetched; the
\* max_age has passed and both entries should refresh
C20_Witness ==
    /\ group.made /\ group._max_age # None
    /\ group._last_refresh_time # None
    /\ now > group._last_refresh_time + group._max_age
    /\ Len(objs) = 2
    /\ \A i \in 1..Len(objs) :
           /\ objs[i]._group
           /\ objs[i]._value # NoValue
           /\ SSMParameter_should_refresh(objs[i], group)

\* a supplied name that contains ":" is base:suffix, split at its first ":"
FirstColon(s) ==
    CHOOSE k \in 1..Len(s) : s[k] = ":" /\ \A h \in 1..(k - 1) : s[h] # ":"

NameBase(s) == SubSeq(s, 1, FirstColon(s) - 1)

NameSuffix(s) == SubSeq(s, FirstColon(s) + 1, Len(s))

\* the decimal numerals of the positive integers
IsPositiveInteger(s) == isdigit(s) /\ int(s) > 0

\* C11: construction from base:N, N the numeral of a positive integer, succeeds
\* with name base, version N, pinned, and full name base:N (the supplied name
\* itself unless N was written with leading zeros); construction from a non-empty
\* name without ":" succeeds with that name, no version, not pinned, and the name
\* as full name.  Every entry the program constructed from the name is this one.
C11_ParsedNames ==
    LET made == SSMParameter(supplied, None)
    IN  /\ (contains(supplied, ":") /\ IsPositiveInteger(NameSuffix(supplied))) =>
               /\ made.err = ""
               /\ made.self._name = NameBase(supplied)
               /\ made.self._version = int(NameSuffix(supplied))
               /\ made.self._is_pinned_version
               /\ full_name(made.self) =
                      NameBase(supplied) \o <<":">> \o str(int(NameSuffix(supplied)))
               /\ NameSuffix(supplied)[1] # "0" => full_name(made.self) = supplied
        /\ (~contains(supplied, ":") /\ Len(supplied) > 0) =>
               /\ made.err = ""
               /\ made.self._name = supplied
               /\ made.self._version = None
               /\ ~made.self._is_pinned_version
               /\ full_name(made.self) = supplied
        /\ \A i \in 1..Len(objs) :
               /\ made.err = ""
               /\ [objs[i] EXCEPT !._group = FALSE] = made.self

\* C11's case: an entry of a group constructed from a name with a version of two
\* digits
C11_Witness ==
    /\ Len(objs) = 1
    /\ contains(supplied, ":")
    /\ Len(NameBase(supplied)) = 2
    /\ NameSuffix(supplied) = <<"1", "0">>
    /\ objs[1]._group
    /\ objs[1]._is_pinned_version
    /\ objs[1]._version = 10
    /\ full_name(objs[1]) = supplied

\* C12: construction from a name that contains ":" and whose suffix after the
\* first ":" is not the numeral of a positive integer raises InvalidVersionError,
\* standalone and through a group, and the group registers nothing.
C12_InvalidVersionOnly ==
    LET made == SSMParameter(supplied, None)
        got == parameter(objs, group, supplied, TRUE)
    IN  (contains(supplied, ":") /\ ~IsPositiveInteger(NameSuffix(supplied))) =>
            /\ made.err = "InvalidVersionError"
            /\ group.made =>
                   /\ got.err = "InvalidVersionError"
                   /\ got.objs = objs
                   /\ got.group = group

\* the calls of the trace, in order, without how they ended
Calls(t) == [k \in 1..Len(t) |-> t[k].call]

\* how many times the trace has this call
Count(t, call) == Cardinality({k \in 1..Len(t) : t[k].call = call})

\* a call of the decorated function has ended
CallEnded == pc = <<>> /\ result # NoResult

\* the first attempt raised an error of error_class, which the wrapper caught
CaughtFirst == Len(trace) > 0 /\ trace[1] = Ended("func", FALSE, "error_class")

\* C15: when the first attempt raised an error of error_class and the attempt
\* that was passed the retry argument returned, the decorated function returns
\* what that attempt returned, func was called exactly twice, the second time
\* with the retry argument set, and the owner's refresh() was called exactly once.
C15_RetrySucceeds ==
    (/\ CallEnded
     /\ CaughtFirst
     /\ \E k \in 1..Len(trace) : trace[k] = Ended("func", TRUE, "return")) =>
        /\ trace[Len(trace)] = Ended("func", TRUE, "return")
        /\ result = Returned(Len(trace))
        /\ Count(trace, "func") = 2
        /\ Count(trace, "refresh") = 1

\* C15's case: the group's decorator with a callback; the first attempt raised,
\* the group was refreshed from the store, the retry returned
C15_Witness ==
    /\ CallEnded
    /\ deco.made /\ deco.self = "group"
    /\ trace = <<Ended("func", FALSE, "error_class"),
                 Ended("refresh", FALSE, "return"),
                 Ended("error_callback", FALSE, "return"),
                 Ended("func", TRUE, "return")>>
    /\ result = Returned(4)
    /\ objs[1]._value = Served(NameP)

\* C16: func is never called a third time and refresh() never a second time in a
\* call of the decorated function; when both attempts raised, the call raises the
\* error of the second one, after exactly one refresh().
C16_SecondFailurePropagates ==
    /\ Count(trace, "func") <= 2
    /\ Count(trace, "refresh") <= 1
    /\ (/\ Count(trace, "func") = 2
        /\ \A k \in 1..Len(trace) : trace[k].call = "func" => trace[k].out # "return") =>
           /\ CallEnded
           /\ trace[Len(trace)].call = "func"
           /\ result = Raised(Len(trace))
           /\ Count(trace, "refresh") = 1

\* C16's case: the second attempt raised an error of error_class too, and it left
\* the decorated function
C16_Witness ==
    /\ CallEnded
    /\ Len(trace) = 3
    /\ trace[1] = Ended("func", FALSE, "error_class")
    /\ trace[2] = Ended("refresh", FALSE, "return")
    /\ trace[3] = Ended("func", TRUE, "error_class")
    /\ result = Raised(3)

\* C17: an error of the first attempt that is not of error_class leaves the
\* decorated function at once: no refresh(), no error_callback(), no second call.
C17_OtherErrorsPropagate ==
    (Len(trace) > 0 /\ trace[1] = Ended("func", FALSE, "other_error")) =>
        /\ trace = <<Ended("func", FALSE, "other_error")>>
        /\ CallEnded
        /\ result = Raised(1)

\* C17's case: a decorator with a callback, whose owner was never fetched; the
\* first attempt raised another error
C17_Witness ==
    /\ CallEnded
    /\ deco.made /\ deco.error_callback = "callable"
    /\ trace = <<Ended("func", FALSE, "other_error")>>
    /\ result = Raised(1)
    /\ objs[1]._value = NoValue
    /\ backend[NameP] >= 1

\* the calls of a call that caught the first attempt's error and ran to the retry
FullSteps ==
    <<"func", "refresh">>
        \o (IF deco.error_callback = "callable" THEN <<"error_callback">> ELSE <<>>)
        \o <<"func">>

\* C18, as the specification states it: after a caught error of the first attempt
\* the call is refresh(), then error_callback() exactly once if there is one, then
\* func again; after a first attempt that returned, func alone.
C18_RefreshCallbackRetry ==
    CallEnded =>
        /\ CaughtFirst => Calls(trace) = FullSteps
        /\ trace[1].out = "return" => Calls(trace) = <<"func">>

\* C18, amended: after a caught error of the first attempt the wrapper calls
\* refresh(), then error_callback() if there is one, then func again, each at most
\* once and in this order, up to the first of refresh() and error_callback() that
\* raises: its error leaves the decorated function.  After a first attempt that
\* returned, func alone was called.
C18_RefreshCallbackRetryUnlessRaised ==
    /\ CaughtFirst =>
           /\ Len(trace) <= Len(FullSteps)
           /\ Calls(trace) = SubSeq(FullSteps, 1, Len(trace))
           /\ pc # <<>> =>
                  (IF Head(pc) = "retry" THEN "func" ELSE Head(pc))
                      = FullSteps[Len(trace) + 1]
    /\ (CallEnded /\ CaughtFirst) =>
           \/ Calls(trace) = FullSteps
           \/ /\ trace[Len(trace)].call \in {"refresh", "error_callback"}
              /\ trace[Len(trace)].out # "return"
              /\ result = Raised(Len(trace))
    /\ (CallEnded /\ trace[1].out = "return") => Calls(trace) = <<"func">>

\* C18's case: the callback was called once, after the refresh that fetched the
\* owner's value and before the retry
C18_Witness ==
    /\ CallEnded
    /\ deco.made /\ deco.self = "parameter" /\ deco.error_callback = "callable"
    /\ Calls(trace) = <<"func", "refresh", "error_callback", "func">>
    /\ trace[2].out = "return"
    /\ objs[1]._value = Served(NameP)

-----------------------------------------------------------------------------
(* Discovery registers one entry per name *)

\* the keys of the group's mapping
Keys(g) == {g._parameters[k].key : k \in 1..Len(g._parameters)}

\* the path group.parameters(path) asks the service for
DiscoveryPath(g, path) == IF Len(g._base_path) > 0 THEN g._base_path \o path ELSE path

\* what group.parameters() returned as done agrees with the items found: one entry
\* per item, the registered one if its name was a key of g, a new one otherwise,
\* holding the item's value and version
OnePerName(os, g, found, done) ==
    /\ Len(done.ids) = Len(found)
    /\ \A k \in 1..Len(found) :
           /\ Cardinality({j \in 1..len(done.group) :
                              done.group._parameters[j].key = found[k].Name}) = 1
           /\ done.ids[k] = Lookup(done.group, found[k].Name)
           /\ IF Registered(g, found[k].Name)
              THEN done.ids[k] = Lookup(g, found[k].Name)
              ELSE done.ids[k] > Len(os)
           /\ done.objs[done.ids[k]]._value =
                  _parse_value(found[k].Value, found[k].Type)
           /\ done.objs[done.ids[k]]._version = found[k].Version
    /\ len(done.group) = Cardinality(Keys(done.group))

\* C22: every name a discovery call returns has exactly one registered entry after
\* the call (the object already registered under that name, or a new one), holding
\* the discovered value and version, and the size of the group is the number of
\* distinct names registered, whatever discovery calls came before
C22_OneEntryPerDiscoveredName ==
    /\ group.made => len(group) = Cardinality(Keys(group))
    /\ group.made =>
           \A path \in DiscoveryPaths, recursive \in BOOLEAN :
               LET done == parameters(objs, group, path, recursive)
               IN  done.err = "" =>
                       OnePerName(objs, group,
                           get_parameters_by_path(DiscoveryPath(group, path),
                                                  recursive).Parameters,
                           done)

\* a discovery call that finds a name registered through parameter() with a value
\* older than the one found, and a name not yet registered
C22_Witness ==
    /\ group.made
    /\ Len(group._base_path) > 0
    /\ Registered(group, NameP)
    /\ ~Registered(group, NameQ)
    /\ objs[Lookup(group, NameP)]._version = 1
    /\ backend[NameP] = 2
    /\ LET done == parameters(objs, group, <<>>, TRUE)
       IN  /\ done.err = ""
           /\ Len(done.ids) = 2
           /\ done.ids[1] = Lookup(group, NameP)
           /\ done.objs[done.ids[1]]._version = 2

-----------------------------------------------------------------------------
(* Value and version of an un-pinned entry *)

\* entry i holds the latest version of its name and that version's value
HoldsLatest(os, i) ==
    /\ os[i]._version = backend[os[i]._name]
    /\ os[i]._value =
           _parse_value(Content(os[i]._name, backend[os[i]._name]), TypeOf(os[i]._name))

\* after the refresh done, version and value of entry i give the latest ones
LatestAfter(done, i) ==
    done.err = "" =>
        \A rev \in BOOLEAN :
            /\ LET got == version(done.objs, done.group, i, rev)
               IN  got.err = "" => HoldsLatest(got.objs, i)
            /\ LET got == value(done.objs, done.group, i, rev)
               IN  got.err = "" => HoldsLatest(got.objs, i)

\* C27: the cached value and version of an un-pinned entry, standalone or grouped,
\* come from the same response, and after a successful refresh() (its own, or its
\* group's) version() gives the store's latest version and value() the value of
\* that version
C27_ValueAndVersionFromSameResponse ==
    \A i \in 1..Len(objs) :
        ~objs[i]._is_pinned_version =>
            /\ objs[i]._value # NoValue =>
                   /\ objs[i]._version # None
                   /\ objs[i]._value =
                          _parse_value(Content(objs[i]._name, objs[i]._version),
                                       TypeOf(objs[i]._name))
            /\ \A rev \in BOOLEAN :
                   LatestAfter(SSMParameter_refresh(objs, group, i, rev), i)
            /\ HasGroup(objs[i], group) =>
                   \A rev \in BOOLEAN :
                       LatestAfter(SSMParameterGroup_refresh(objs, group, rev), i)

-----------------------------------------------------------------------------
(* version of a pinned entry *)

\* C28: version() of a pinned entry that has been resolved sends no request and
\* refreshes nothing, whatever the time elapsed and whatever max_age governs the
\* entry: it reports the version the entry holds
C28_PinnedVersionWithoutRefresh ==
    \A i \in 1..Len(objs) :
        objs[i]._is_pinned_version /\ objs[i]._value # NoValue =>
            \A rev \in BOOLEAN :
                LET got == version(objs, group, i, rev)
                IN  /\ got.calls = <<>>
                    /\ got.err = ""
                    /\ got.objs = objs
                    /\ got.group = group

-----------------------------------------------------------------------------
(* The group's refresh time: overwritten by refresh(), coalesced by discovery *)

\* C30: a successful group refresh() at time now sets the group's
\* _last_refresh_time to now, also when discovery calls had kept it at an older
\* time (and so does the group refresh made by a grouped entry's refresh());
\* a discovery call keeps the oldest time
C30_ExplicitRefreshOverwrites ==
    group.made =>
        /\ \A rev \in BOOLEAN :
               LET done == SSMParameterGroup_refresh(objs, group, rev)
               IN  done.err = "" => done.group._last_refresh_time = now
        /\ \A i \in 1..Len(objs), rev \in BOOLEAN :
               LET done == SSMParameter_refresh(objs, group, i, rev)
               IN  done.err = "" /\ HasGroup(objs[i], group) =>
                       done.group._last_refresh_time = now
        /\ \A path \in DiscoveryPaths, recursive \in BOOLEAN :
               LET done == parameters(objs, group, path, recursive)
               IN  done.err = "" =>
                       done.group._last_refresh_time =
                           IF group._last_refresh_time = None THEN now
                           ELSE Min(now, group._last_refresh_time)

\* two discovery calls at different times left the group's time at the older one,
\* time has passed, and a group refresh() succeeds
C30_Witness ==
    /\ group.made
    /\ Len(stamps) = 2
    /\ stamps[1] # None
    /\ stamps[1] < stamps[2]
    /\ group._last_refresh_time = stamps[1]
    /\ len(group) > 0
    /\ LET done == SSMParameterGroup_refresh(objs, group, FALSE)
       IN  /\ done.err = ""
           /\ done.group._last_refresh_time = now
           /\ done.group._last_refresh_time > group._last_refresh_time

-----------------------------------------------------------------------------
(* The name of a constructed entry *)

\* C29: every entry that was constructed has a non-empty name: SSMParameter and
\* group.parameter fail for an empty name and for a name whose part before the
\* ":version" suffix is empty
C29_NameNeverEmpty ==
    /\ \A i \in 1..Len(objs) : Len(objs[i]._name) > 0
    /\ LET made == SSMParameter(supplied, None)
       IN  made.err = "" => Len(made.self._name) > 0
    /\ Len(supplied) = 0 => SSMParameter(supplied, None).err = "ValueError"

-----------------------------------------------------------------------------
(* Paths that do not start with a slash *)

\* the call changed nothing and raised InvalidPathError
RaisedInvalidPath(got) ==
    /\ got.err = "InvalidPathError"
    /\ got.objs = objs
    /\ got.group = group

\* parameter(supplied) took the supplied name as a key of the group
TakenAsPlainKey(got) ==
    /\ got.err = ""
    /\ Registered(got.group, supplied)
    /\ got.obj = Lookup(got.group, supplied)
    /\ ~Registered(group, supplied) => got.objs[got.obj]._name = supplied

-----------------------------------------------------------------------------
(* Secrets *)

\* C23: in every state of a group, secret(name) with a valid secret name returns
\* an entry whose name starts with PREFIX, and a second secret(name) returns the
\* same object and leaves the size of the group as it is
C23_SecretIsSecretReference ==
    SecretsManagerParameter(supplied, None).err = "" =>
        LET first == secret(objs, group, supplied)
            second == secret(first.objs, first.group, supplied)
        IN  /\ first.err = ""
            /\ startswith(first.objs[first.obj]._name, PREFIX)
            /\ second.err = ""
            /\ second.obj = first.obj
            /\ second.objs = first.objs
            /\ len(second.group) = len(first.group)

\* C24: secret(name) and SecretsManagerParameter(name) with a name that starts
\* with "/" but not with PREFIX raise InvalidParameterError, and the failed
\* secret(name) leaves the group as it was
C24_ForeignPathRejected ==
    startswith(supplied, <<"/">>) /\ ~startswith(supplied, PREFIX) =>
        /\ SecretsManagerParameter(supplied, None).err = "InvalidParameterError"
        /\ LET got == secret(objs, group, supplied)
           IN  /\ got.err = "InvalidParameterError"
               /\ got.objs = objs
               /\ got.group = group

-----------------------------------------------------------------------------
(* The client a class fetches with *)

\* C25: the client set on SSMParameter or on SSMParameterGroup is the client of
\* every later fetch of that class, and set_ssm_client with a client that lacks
\* get_parameters or get_parameters_by_path raises TypeError and leaves the
\* clients as they were
C25_SwappedClientIsUsed ==
    /\ \A cls \in {"SSMParameter", "SSMParameterGroup"} :
           clients[cls].kind = "client" => FetchClient(clients, cls).client = clients[cls]
    /\ \A cls \in Classes, client \in SuppliedClients :
           client.methods # required_methods =>
               /\ set_ssm_client(clients, cls, client).err = "TypeError"
               /\ set_ssm_client(clients, cls, client).clients = clients

-----------------------------------------------------------------------------
(* Batches of a group refresh *)

\* the places (call, position) where the requests sent name key
Places(sent, key) ==
    {<<c, j>> \in (1..Len(sent)) \X (1..BatchSize) :
        j <= Len(sent[c].key) /\ sent[c].key[j] = key}

\* what group.refresh() did as done: the requests it sent are by name and take the
\* full names of the registered entries ten at a time, each name once, and their
\* answers are put together: the values of all, or the unresolved names of all
BatchedAndMerged(done) ==
    /\ Len(done.calls) = (len(group) + BatchSize - 1) \div BatchSize
    /\ \A c \in 1..Len(done.calls) :
           /\ done.calls[c].api = "get_parameters"
           /\ Len(done.calls[c].key) \in 1..BatchSize
    /\ \A k \in 1..len(group) :
           Cardinality(Places(done.calls, RequestedKeys[k])) = 1
    /\ IF UnresolvedKeys = <<>>
       THEN /\ done.err = ""
            /\ \A k \in 1..len(group) :
                   /\ done.objs[group._parameters[k].obj]._value =
                          Item(RequestedKeys[k]).Value
                   /\ done.objs[group._parameters[k].obj]._version =
                          Item(RequestedKeys[k]).Version
       ELSE /\ done.err = "InvalidParameterError"
            /\ done.msg = join(UnresolvedKeys, ",")

\* C26: group.refresh() over n registered entries sends ceil(n / 10) requests by
\* name, each with at most 10 names, every entry's full name being in exactly one
\* of them; the answers are merged and the unresolved names of all the requests
\* are reported together
C26_BatchesOfTen ==
    \A rev \in BOOLEAN : BatchedAndMerged(SSMParameterGroup_refresh(objs, group, rev))

\* a group of 21 entries, refreshed with three requests, two of which have a name
\* the store does not hold
C26_Witness ==
    /\ len(group) = 2 * BatchSize + 1
    /\ UnresolvedKeys = <<BatchName(1), BatchName(2 * BatchSize + 1)>>
    /\ LET done == SSMParameterGroup_refresh(objs, group, FALSE)
       IN  /\ Len(done.calls) = 3
           /\ Len(done.calls[3].key) = 1
           /\ done.msg = BatchName(1) \o <<",">> \o BatchName(2 * BatchSize + 1)

\* C31: a decorator given an error_callback that is supplied (not None) and is
\* not callable is refused with a TypeError when the decorator is made, for every
\* owner, retry argument and such callback: no decorator is made, so that no
\* decorated function exists that could be called.
C31_NonCallableCallbackRejected ==
    /\ \A self \in Owners, retry_argument \in RetryArguments :
           \A error_callback \in ErrorCallbacks \ {"None"} :
               ~callable(error_callback) =>
                   /\ refresh_on_error(self, error_callback, retry_argument).err
                          = "TypeError"
                   /\ ~refresh_on_error(self, error_callback, retry_argument).deco.made
    /\ deco.made => (deco.error_callback = "None" \/ callable(deco.error_callback))

\* C38: when the refresh() of the except clause itself raised, the decorated
\* function raised that error, error_callback was not called and func was not
\* called again: func ran exactly once, and the refresh was the last call.
C38_FailedRefreshPropagates ==
    (/\ CaughtFirst
     /\ \E k \in 1..Len(trace) : trace[k].call = "refresh" /\ trace[k].out # "return") =>
        /\ Calls(trace) = <<"func", "refresh">>
        /\ pc = <<>>
        /\ result = Raised(2)
        /\ Count(trace, "error_callback") = 0
        /\ Count(trace, "func") = 1

\* C38's case: a decorator with a callback; the first attempt raised and the
\* owner's refresh raised, for a name the store does not resolve
C38_Witness ==
    /\ CallEnded
    /\ deco.made
    /\ deco.error_callback = "callable"
    /\ trace = <<Ended("func", FALSE, "error_class"),
                 Ended("refresh", FALSE, "InvalidParameterError")>>
    /\ result = Raised(2)

-----------------------------------------------------------------------------
(* Orphans, siblings of an unresolved name, and the frame of discovery *)

\* C35: every object whose _group is set is the object the group's mapping holds
\* under some key, so that the group's refresh, which goes over the mapping,
\* reaches every object that takes its staleness from the group.
C35_NoOrphans ==
    group.made =>
        \A i \in 1..Len(objs) :
            objs[i]._group =>
                \E k \in 1..len(group) : group._parameters[k].obj = i

\* C36: while the group holds a name the store does not resolve, refresh() of
\* every entry of the group raises InvalidParameterError, and so does value() of
\* every entry that has no value yet or is stale, whether or not the entry's own
\* name resolves.
C36_UnresolvedSiblingFailsAll ==
    \A i \in 1..Len(objs), rev \in BOOLEAN :
        (HasGroup(objs[i], group) /\ Len(UnresolvedKeys) > 0) =>
            /\ SSMParameter_refresh(objs, group, i, rev).err = "InvalidParameterError"
            /\ (objs[i]._value = NoValue \/ SSMParameter_should_refresh(objs[i], group))
                   => value(objs, group, i, rev).err = "InvalidParameterError"

\* C36's case: the group holds a name the store lacks and an entry whose own name
\* the store resolves; value() of that entry needs a fetch and raises
C36_Witness ==
    /\ group.made
    /\ Len(UnresolvedKeys) > 0
    /\ \E i \in 1..Len(objs) :
           /\ HasGroup(objs[i], group)
           /\ Resolves(full_name(objs[i]))
           /\ objs[i]._value = NoValue
           /\ value(objs, group, i, FALSE).err = "InvalidParameterError"
           /\ _get_parameters(<<full_name(objs[i])>>, FALSE).invalid_names = <<>>

\* the names the store returns to group.parameters(path, recursive)
ReturnedNames(path, recursive) ==
    DOMAIN _get_parameters_by_path(DiscoveryPath(group, path), recursive)

\* C40: group.parameters() changes only objects it returns, and each of them
\* bears a name the store returned; every other object is as before and every
\* key of the mapping keeps its object and its place; when the call raises,
\* for a path the group or the store refuses, the objects and the group (its
\* mapping and its _last_refresh_time) are as before.
C40_DiscoveryFrame ==
    group.made =>
        \A path \in DiscoveryPaths, recursive \in BOOLEAN :
            LET done == parameters(objs, group, path, recursive)
            IN  /\ \A i \in 1..Len(objs) :
                       done.objs[i] # objs[i] =>
                           /\ \E k \in 1..Len(done.ids) : done.ids[k] = i
                           /\ done.err = ""
                           /\ objs[i]._name \in ReturnedNames(path, recursive)
                /\ \A k \in 1..len(group) :
                       /\ k <= len(done.group)
                       /\ done.group._parameters[k] = group._parameters[k]
                /\ done.err # "" => (done.objs = objs /\ done.group = group)

\* C40's case: a group with a refresh time holds a pinned entry with a value and
\* another entry; a discovery changes the other entry and not the pinned one, and
\* a discovery for the empty path is refused by the store
C40_Witness ==
    /\ group.made
    /\ group._last_refresh_time # None
    /\ \E i \in 1..Len(objs), j \in 1..Len(objs) :
           /\ objs[i]._is_pinned_version
           /\ objs[i]._value # NoValue
           /\ Registered(group, full_name(objs[i]))
           /\ LET done == parameters(objs, group, <<"/", "a">>, TRUE)
              IN  /\ done.err = ""
                  /\ done.objs[j] # objs[j]
                  /\ done.objs[i] = objs[i]
    /\ parameters(objs, group, <<>>, TRUE).err = "ClientError"

\* C39: the group's _last_refresh_time is never later than the clock; once set it
\* never decreases from one state to the next; and group.parameters() on a group
\* that has a _last_refresh_time leaves it as it is.
C39_RefreshTimeMonotone ==
    /\ [](group._last_refresh_time # None => group._last_refresh_time <= now)
    /\ [][group._last_refresh_time # None =>
              /\ group'._last_refresh_time # None
              /\ group'._last_refresh_time >= group._last_refresh_time]_vars
    /\ [](group._last_refresh_time # None =>
              \A path \in DiscoveryPaths, recursive \in BOOLEAN :
                  parameters(objs, group, path, recursive).group._last_refresh_time
                      = group._last_refresh_time)

\* C39's case: the group was refreshed earlier than now, and a discovery that
\* finds a parameter leaves the earlier time
C39_Witness ==
    /\ group.made
    /\ group._last_refresh_time # None
    /\ group._last_refresh_time < now
    /\ LET done == parameters(objs, group, <<"/", "a">>, TRUE)
       IN  /\ done.err = ""
           /\ Len(done.ids) > 0
           /\ done.group._last_refresh_time = group._last_refresh_time

-----------------------------------------------------------------------------
(* A failed refresh of a standalone entry *)

\* C37: a refresh() of a standalone entry that raises leaves the entry (its
\* value, its version, its _last_refresh_time) as it was; if the entry had no
\* value, the next value() sends a request; if it had a value and no max_age,
\* the next value() sends none and the entry returns the value it had.
C37_FailedRefreshLeavesEntry ==
    \A i \in 1..Len(objs), rev \in BOOLEAN :
        LET done == SSMParameter_refresh(objs, group, i, rev)
            read == value(done.objs, done.group, i, rev)
        IN  (~HasGroup(objs[i], group) /\ done.err # "") =>
                /\ done.objs = objs
                /\ objs[i]._value = NoValue => Len(read.calls) > 0
                /\ (objs[i]._value # NoValue /\ objs[i]._max_age = None) =>
                       /\ read.err = ""
                       /\ read.calls = <<>>
                       /\ read.objs[i]._value = objs[i]._value
                       /\ read.objs[i]._version = objs[i]._version

\* C37's case: an entry without max_age holds a value fetched earlier, the
\* parameter was deleted since, and refresh() raises
C37_Witness ==
    /\ ~group.made
    /\ Len(objs) = 1
    /\ objs[1]._value # NoValue
    /\ objs[1]._max_age = None
    /\ objs[1]._last_refresh_time # None
    /\ objs[1]._last_refresh_time < now
    /\ backend[NameP] = 0
    /\ SSMParameter_refresh(objs, group, 1, FALSE).err = "InvalidParameterError"

-----------------------------------------------------------------------------
(* The values of a filter *)

\* C32: a filter never holds more than 50 values; value() and values() called
\* on a filter that holds 50 values raise ValueError and leave the values held
\* as they are, for a value the filter holds as for one it does not hold.
C32_AtMostFiftyValues ==
    ssm_filter.made =>
        /\ Cardinality(ssm_filter._values) <= MaxFilterValues
        /\ \A vs \in FilterListInputs :
               Cardinality(SSMFilter_values(ssm_filter, vs).self._values)
                   <= MaxFilterValues
        /\ Cardinality(ssm_filter._values) = MaxFilterValues =>
               /\ \A v \in FilterValueInputs :
                      /\ SSMFilter_value(ssm_filter, v).err = "ValueError"
                      /\ SSMFilter_value(ssm_filter, v).self = ssm_filter
               /\ \A vs \in FilterListInputs :
                      Len(vs) > 0 =>
                          /\ SSMFilter_values(ssm_filter, vs).err = "ValueError"
                          /\ SSMFilter_values(ssm_filter, vs).self = ssm_filter

\* C32's case: the filter holds the 50 values 0..49, and value(50) raises
C32_Witness ==
    /\ ssm_filter.made
    /\ ssm_filter._values = 0..(MaxFilterValues - 1)
    /\ SSMFilter_value(ssm_filter, MaxFilterValues).err = "ValueError"

-----------------------------------------------------------------------------
(* The chain of stores *)

\* store k of the chain resolves name n
StoreResolves(k, n) ==
    IF chain._stores[k].kind = "env"
    THEN upper(chain._stores[k]._prefix \o n) \in chain.environ
    ELSE Resolves(n)

\* the value store k of the chain holds for name n
StoreValue(k, n) ==
    IF chain._stores[k].kind = "env"
    THEN EnvValue(upper(chain._stores[k]._prefix \o n))
    ELSE Item(n).Value

\* the names none of the first k stores resolves
LeftAfter(names, k) ==
    SelectSeq(names, LAMBDA n : \A j \in 1..k : ~StoreResolves(j, n))

\* chain.parameters() asked the stores in order, each for the names no earlier
\* store resolves, and stopped at the first store after which none is left
AskedInOrder(names, got) ==
    /\ Len(got.asked) <= Len(chain._stores)
    /\ \A k \in 1..Len(got.asked) : got.asked[k] = LeftAfter(names, k - 1)
    /\ \A k \in 1..(Len(got.asked) - 1) : Len(LeftAfter(names, k)) > 0
    /\ Len(got.asked) < Len(chain._stores) => Len(LeftAfter(names, Len(got.asked))) = 0

\* every value returned is that of the first store that resolves its name
FromFirstResolver(got) ==
    \A n \in DOMAIN got.values :
        \E k \in 1..Len(chain._stores) :
            /\ StoreResolves(k, n)
            /\ \A j \in 1..(k - 1) : ~StoreResolves(j, n)
            /\ got.values[n] = StoreValue(k, n)

\* C33: chain.parameters(names) asks the stores in order, each for the names no
\* earlier store resolves, and stops at the first store after which none is
\* left; each value returned is that of the first store of the chain that
\* resolves its name; the names returned as invalid are those no store resolves.
C33_ChainFirstResolverWins ==
    chain.made =>
        \A names \in ChainNames, rev \in BOOLEAN :
            LET got == ChainedParameterStore_parameters(chain, names, rev)
            IN  /\ AskedInOrder(names, got)
                /\ FromFirstResolver(got)
                /\ got.invalid_names = LeftAfter(names, Len(chain._stores))

-----------------------------------------------------------------------------
(* Refreshes from several threads *)

\* the entry's _value and _version are those of the fetch of the refresh that set
\* its _last_refresh_time
Whole ==
    /\ threads.value_of = threads.stamp_of
    /\ threads.version_of = threads.stamp_of
    /\ objs[1]._value = threads.fetches[threads.stamp_of].Value
    /\ objs[1]._version = threads.fetches[threads.stamp_of].Version
    /\ objs[1]._last_refresh_time # None

====
